---- MODULE Spec2Model ----
(***************************************************************************)
(* A model of the autonomous posting agent: the batch-plan cycle           *)
(* (services/autopost.py), the continuous cycle (services/unified_agent.py *)
(* and the tools under tools/unified), the legacy mention reply path       *)
(* (services/mentions.py), the capability gate (services/tier_manager.py)  *)
(* and the ledger tables (services/database.py).                           *)
(*                                                                         *)
(* Python values of several types are written as records or as strings so  *)
(* that every value of one variable has one TLA+ type.  A string in angle  *)
(* brackets names a class of Python values: "<missing>" an absent key,     *)
(* "<list>" an unhashable value, "<str>" a string where a mapping is       *)
(* expected.                                                               *)
(***************************************************************************)
EXTENDS Integers, Sequences, FiniteSets, TLC

VARIABLES
    settings,                 \* config.settings: the feature toggles
    planIn,                   \* argument handed to _sanitize_plan
    planOut,                  \* what _sanitize_plan did with it
    llmIn,                    \* a model response and the shape asked for
    llmOut,                   \* what the LLM client decoded it to
    appPhase,                 \* main.lifespan: "startup" until initialize() ran
    tier_manager,             \* the TierManager object (its fields)
    gateCall,                 \* the last call made on the TierManager
    tierChecks,               \* when the usage endpoint was last contacted
    posts,                    \* rows of table posts, oldest first
    actions,                  \* rows of table actions, oldest first
    publishLog,               \* every create_tweet call made, oldest first
    postFailsLeft,            \* create_tweet calls that will still fail
    mentions,                 \* rows of table mentions, by tweet_id
    db_date,                  \* the database server's CURRENT_DATE, a day number
    now,                      \* datetime.now(), in half hours since startup
    autopost,                 \* AutoPostService.run: its position and locals
    agent,                    \* UnifiedAgent: its counters and run()'s locals
    overlap,                  \* UnifiedAgent with two run() calls in progress
    legacy                    \* MentionHandler.process_mentions_batch: its locals

sanVars == <<planIn, planOut>>
llmVars == <<llmIn, llmOut>>
cfgVars == <<settings>>
gateVars == <<appPhase, tier_manager, gateCall, tierChecks>>
ledgerVars == <<posts, actions, mentions>>
clockVars == <<db_date, now>>
platformVars == <<publishLog, postFailsLeft>>
vars == <<settings, planIn, planOut, llmIn, llmOut, appPhase, tier_manager, gateCall,
          tierChecks, posts, actions, mentions, db_date, now, publishLog, postFailsLeft, autopost,
          agent, overlap, legacy>>

\* the three services
serviceVars == <<autopost, agent, legacy>>

----------------------------------------------------------------------------
(* Bounds of the model *)

\* longest plan the model hands to the sanitizer
MaxPlanLen == 4

\* longest plan the model returns in a batch-plan cycle
MaxModelPlanLen == 3

\* longest text (after trimming) the model returns
MaxTextLen == 281

\* most consecutive transient failures of the platform's create_tweet
MaxPublishFails == 1

\* most create_tweet calls the model asks for in the continuous cycles
MaxPublishes == 1

\* most auxiliary tools the model asks for between two publishes
MaxAuxTools == 1

\* mentions that exist on the platform
MaxMentions == 1

\* mentions that exist on the platform where get_mentions alone is followed
MaxFetched == 2

\* tool calls one of two overlapping cycles is followed through
MaxOverlapSteps == 2

\* posts of the current day that the ledger holds when a cycle starts
PriorPosts == 14

\* most rows the actions ledger is followed for
MaxLedgerRows == 4

\* cycles one service instance is followed through
MaxCycles == 2

\* half hours of process time followed
MaxNow == 4

\* last day the database clock is followed to
LastDay == 3

\* all sequences over S of length at most n
SeqsUpTo(S, n) == UNION {[1..k -> S] : k \in 0..n}

Min(a, b) == IF a < b THEN a ELSE b

----------------------------------------------------------------------------
(* config/settings.py *)

\* Settings(): the defaults of the two feature toggles
DefaultSettings == [enable_image_generation |-> FALSE, allow_mentions |-> TRUE]

\* the deployments studied: the toggles as set in the environment
SettingsValues ==
    {[enable_image_generation |-> img, allow_mentions |-> TRUE] : img \in BOOLEAN}

----------------------------------------------------------------------------
(* tools/registry.py *)

\* modules of tools/shared: available in both modes
SharedTools == {"web_search", "get_twitter_profile", "get_conversation_history"}

\* modules of tools/legacy
LegacyTools == {"generate_image"}

\* modules of tools/unified
UnifiedTools == {"create_post", "create_reply", "get_mentions", "finish_cycle"}

IMAGE_TOOLS == {"generate_image"}

ALL_TOOLS == SharedTools \cup LegacyTools \cup UnifiedTools

\* TOOLS = get_tools_for_mode("legacy"): shared and legacy tools, image tools
\* only when image generation is enabled (no mention tool lives in these
\* folders)
TOOLS ==
    {t \in SharedTools \cup LegacyTools :
        ~(t \in IMAGE_TOOLS /\ ~settings.enable_image_generation)}

MENTION_TOOLS == {"get_mentions", "create_reply"}

\* TOOL_CONFIG.get("tier", "all")
ToolTier(t) == IF t \in {"get_mentions", "create_reply"} THEN "basic+" ELSE "all"

\* get_tools_for_mode(mode, tier): the names of the tools it returns
get_tools_for_mode(mode, tier) ==
    {t \in ALL_TOOLS :
        /\ ~(t \in IMAGE_TOOLS /\ ~settings.enable_image_generation)
        /\ ~(t \in MENTION_TOOLS /\ ~settings.allow_mentions)
        /\ IF mode = "legacy" THEN t \in SharedTools \cup LegacyTools
           ELSE /\ mode = "unified"
                /\ t \in SharedTools \cup UnifiedTools
                /\ (ToolTier(t) = "all" \/ tier /= "free")}

----------------------------------------------------------------------------
(* services/tier_manager.py *)

\* TIER_FEATURES[tier]["mentions"]
TierMentions(t) == t \in {"basic", "pro", "enterprise"}

\* TIER_FEATURES[tier]["daily_post_limit"]
TierDailyPostLimit(t) ==
    CASE t = "free" -> 15
      [] t = "basic" -> 50
      [] t = "pro" -> 500
      [] t = "enterprise" -> 1000

\* TIER_FEATURES[tier]["daily_reply_limit"]
TierDailyReplyLimit(t) ==
    CASE t = "free" -> 0
      [] t = "basic" -> 50
      [] t = "pro" -> 500
      [] t = "enterprise" -> 1000

KnownTiers == {"free", "basic", "pro", "enterprise"}

\* TierManager.__init__; "<none>" is None, cap_reset_day 0 is None,
\* last_tier_check -1 is None
NewTierManager ==
    [tier |-> "<none>", project_cap |-> 0, project_usage |-> 0,
     cap_reset_day |-> 0, last_tier_check |-> -1, is_initialized |-> FALSE,
     is_paused |-> FALSE, pause_reason |-> "<none>"]

\* self.tier_check_interval = timedelta(hours=1), in half hours
tier_check_interval == 2

\* get_usage_percent, in thousandths of a percent rounded down: the code
\* computes (usage / cap) * 100 in floating point and only ever compares it
\* with the whole numbers 80, 90 and 100, which rounding down preserves
get_usage_percent(tm) ==
    IF tm.project_cap <= 0 THEN 0
    ELSE (tm.project_usage * 100 * 1000) \div tm.project_cap

\* a threshold that lets exactly 100% through, for comparison
OverCapOnly(tm) == get_usage_percent(tm) > 100 * 1000

\* the threshold `percent >= 100` of _check_usage_warnings and can_post
AtOrOverCap(tm) == get_usage_percent(tm) >= 100 * 1000

\* a usage check that lifts the pause once usage is back under the cap, for
\* comparison
check_usage_warnings_lifting_pause(tm) ==
    IF AtOrOverCap(tm)
    THEN [tm EXCEPT !.is_paused = TRUE, !.pause_reason = "monthly_cap_reached"]
    ELSE [tm EXCEPT !.is_paused = FALSE, !.pause_reason = "<none>"]

\* _check_usage_warnings
_check_usage_warnings(tm) ==
    IF AtOrOverCap(tm)
    THEN [tm EXCEPT !.is_paused = TRUE, !.pause_reason = "monthly_cap_reached"]
    ELSE tm

\* the tier chain of detect_tier
TierFromCap(cap) ==
    IF cap >= 10000000 THEN "enterprise"
    ELSE IF cap >= 1000000 THEN "pro"
    ELSE IF cap >= 10000 THEN "basic"
    ELSE IF cap <= 500 THEN "free"
    ELSE "unknown"

\* What the usage endpoint answers.  kind "ok": a 200 whose body parses to
\* {"data": {...}} (an absent "data" reads as {}: every field at its
\* default); capOk / usageOk: int() accepts the field; "bad_schema": a 200
\* whose body or whose "data" is not a mapping.
OkResponse(capOk, cap, usageOk, usage, day) ==
    [kind |-> "ok", payload |-> TRUE, capOk |-> capOk, cap |-> cap,
     usageOk |-> usageOk, usage |-> usage, reset_day |-> day]

FailResponse(k) ==
    [kind |-> k, payload |-> FALSE, capOk |-> FALSE, cap |-> 0,
     usageOk |-> FALSE, usage |-> 0, reset_day |-> 0]

\* a 200 whose body has no "data": data.get("data", {}) is {}, and every
\* usage_data.get(...) yields its default
NoPayloadResponse ==
    [kind |-> "ok", payload |-> FALSE, capOk |-> TRUE, cap |-> 0,
     usageOk |-> TRUE, usage |-> 0, reset_day |-> 0]

\* detect_tier lets an exception out to its caller: never, its whole body is
\* inside try ... except Exception
detect_tier_raises(tm, resp) == FALSE

\* a detect_tier whose error path stores the tier it reports, for comparison
detect_tier_storing_unknown(tm, resp) ==
    IF resp.kind = "403" THEN [tm EXCEPT !.tier = "free"]
    ELSE IF resp.kind /= "ok" \/ ~resp.capOk THEN [tm EXCEPT !.tier = "unknown"]
    ELSE IF ~resp.usageOk
         THEN [tm EXCEPT !.project_cap = resp.cap, !.tier = "unknown"]
    ELSE _check_usage_warnings(
             [tm EXCEPT !.project_cap = resp.cap,
                        !.project_usage = resp.usage,
                        !.cap_reset_day = resp.reset_day,
                        !.tier = TierFromCap(resp.cap),
                        !.last_tier_check = now])

\* detect_tier: the TierManager after the call
detect_tier(tm, resp) ==
    IF resp.kind = "403" THEN [tm EXCEPT !.tier = "free"]
    ELSE IF resp.kind /= "ok" THEN tm          \* raise_for_status / .get raised
    ELSE IF ~resp.capOk THEN tm                \* int(project_cap) raised
    ELSE IF ~resp.usageOk                      \* int(project_usage) raised
         THEN [tm EXCEPT !.project_cap = resp.cap]
    ELSE _check_usage_warnings(
             [tm EXCEPT !.project_cap = resp.cap,
                        !.project_usage = resp.usage,
                        !.cap_reset_day = resp.reset_day,
                        !.tier = TierFromCap(resp.cap),
                        !.last_tier_check = now])

\* detect_tier: the "tier" entry of the dict it returns
detect_tier_result(tm, resp) ==
    IF resp.kind = "403" THEN "free"
    ELSE IF resp.kind = "ok" /\ resp.capOk /\ resp.usageOk
         THEN TierFromCap(resp.cap)
    ELSE "unknown"

\* detect_tier: the keys of the dict it returns, which POST /tier-refresh
\* hands to its caller as it is
detect_tier_keys(tm, resp) ==
    IF resp.kind = "403" THEN {"tier", "method"}
    ELSE IF resp.kind = "ok" /\ resp.capOk /\ resp.usageOk
         THEN {"tier", "project_cap", "project_usage", "usage_percent",
               "cap_reset_day", "features"}
    ELSE {"tier", "error"}

\* initialize
initialize(tm, resp) ==
    IF detect_tier_result(tm, resp) /= "unknown"
    THEN [detect_tier(tm, resp) EXCEPT !.is_initialized = TRUE]
    ELSE detect_tier(tm, resp)

\* resume
resume(tm) == [tm EXCEPT !.is_paused = FALSE, !.pause_reason = "<none>"]

\* can_post: (allowed, reason)
can_post(tm) ==
    IF ~tm.is_initialized THEN [ok |-> TRUE, reason |-> "<none>"]
    ELSE IF tm.is_paused THEN [ok |-> FALSE, reason |-> tm.pause_reason]
    ELSE IF AtOrOverCap(tm)
         THEN [ok |-> FALSE, reason |-> "monthly_cap_reached"]
    ELSE [ok |-> TRUE, reason |-> "<none>"]

\* get_daily_limits: (daily_post_limit, daily_reply_limit)
get_daily_limits(tm) ==
    LET t == IF tm.tier \in KnownTiers THEN tm.tier ELSE "free"
    IN <<TierDailyPostLimit(t), TierDailyReplyLimit(t)>>

(* The endpoint's answers the model draws from *)

CapValues == {0, 100, 5000, 10000, 1000000, 10000000}

UsageValues == {0, 99, 100, 9999, 10000, 10001}

\* cap_reset_day of a well-formed answer (0, None, comes with NoPayloadResponse)
ResetDays == {15}

UsageResponses ==
    {FailResponse(k) : k \in {"403", "429", "network", "bad_schema"}}
    \cup {OkResponse(TRUE, c, TRUE, u, d) :
            c \in CapValues, u \in UsageValues, d \in ResetDays}
    \cup {NoPayloadResponse}
    \cup {OkResponse(FALSE, 0, TRUE, u, 0) : u \in {0}}
    \cup {OkResponse(TRUE, c, FALSE, 0, 0) : c \in CapValues}

\* what is remembered of a call on the TierManager: the method, the
\* endpoint's answer, the object before the call, whether the call raised
GateCall(op, resp, before, raised) ==
    [op |-> op, resp |-> resp, before |-> before, raised |-> raised]

NoGateCall == GateCall("<none>", FailResponse("<none>"), NewTierManager, FALSE)

GateInit ==
    /\ appPhase = "startup"
    /\ tier_manager = NewTierManager
    /\ gateCall = NoGateCall
    /\ tierChecks = [prev |-> -1, last |-> -1]
    /\ now = 0

\* the answers drawn at startup where the cycles, not the gate, are studied:
\* one per outcome of can_post and per tier class
StartupResponses ==
    {FailResponse("403"), FailResponse("network"),
     OkResponse(TRUE, 100, TRUE, 99, 15), OkResponse(TRUE, 100, TRUE, 100, 15),
     OkResponse(TRUE, 10000, TRUE, 0, 15)}

\* detect_tier sends its request now: the times of the last two requests
Contacted == [prev |-> tierChecks.last, last |-> now]

\* lifespan: tier_manager.initialize() at startup, the endpoint answering
\* one of `responses`
InitializeWith(responses) ==
    /\ appPhase = "startup"
    /\ \E resp \in responses :
          /\ tier_manager' = initialize(tier_manager, resp)
          /\ gateCall' = GateCall("initialize", resp, tier_manager,
                                  detect_tier_raises(tier_manager, resp))
    /\ tierChecks' = Contacted
    /\ appPhase' = "running"

Initialize ==
    /\ InitializeWith(UsageResponses)
    /\ UNCHANGED <<cfgVars, overlap, llmVars, clockVars, sanVars, ledgerVars, platformVars, serviceVars>>

\* POST /tier-refresh, refresh_usage and the scheduled maybe_refresh_tier:
\* detect_tier on the running process
DetectTier ==
    /\ appPhase = "running"
    /\ \E resp \in UsageResponses :
          /\ tier_manager' = detect_tier(tier_manager, resp)
          /\ gateCall' = GateCall("detect_tier", resp, tier_manager,
                                  detect_tier_raises(tier_manager, resp))
    /\ tierChecks' = Contacted
    /\ UNCHANGED appPhase
    /\ UNCHANGED <<cfgVars, overlap, llmVars, clockVars, sanVars, ledgerVars, platformVars, serviceVars>>

\* TierManager.resume()
Resume ==
    /\ appPhase = "running"
    /\ tier_manager' = resume(tier_manager)
    /\ gateCall' = GateCall("resume", FailResponse("<none>"), tier_manager, FALSE)
    /\ UNCHANGED <<appPhase, tierChecks>>
    /\ UNCHANGED <<cfgVars, overlap, llmVars, clockVars, sanVars, ledgerVars, platformVars, serviceVars>>

\* the scheduler's tier_refresh job, or any caller: maybe_refresh_tier().
\* It calls detect_tier when last_tier_check is None or older than the
\* interval, and does nothing otherwise
MaybeRefreshTier ==
    /\ appPhase = "running"
    /\ IF \/ tier_manager.last_tier_check = -1
          \/ now - tier_manager.last_tier_check > tier_check_interval
       THEN /\ \E resp \in UsageResponses :
                 /\ tier_manager' = detect_tier(tier_manager, resp)
                 /\ gateCall' = GateCall("maybe_refresh_tier", resp, tier_manager,
                                         detect_tier_raises(tier_manager, resp))
            /\ tierChecks' = Contacted
       ELSE /\ gateCall' = GateCall("maybe_refresh_tier", FailResponse("<none>"),
                                    tier_manager, FALSE)
            /\ UNCHANGED <<tier_manager, tierChecks>>
    /\ UNCHANGED appPhase
    /\ UNCHANGED <<cfgVars, overlap, llmVars, clockVars, sanVars, ledgerVars, platformVars, serviceVars>>

\* half an hour passes
Tick ==
    /\ now < MaxNow
    /\ now' = now + 1
    /\ UNCHANGED <<db_date, cfgVars, overlap, llmVars, sanVars, gateVars, ledgerVars, platformVars, serviceVars>>

----------------------------------------------------------------------------
(* services/llm.py: LLMClient *)

\* The content of a model response: a body between a lead and a trail,
\* each of which is empty, whitespace or words.  Bodies: a JSON object, a
\* JSON array holding an object, a JSON array of numbers, a JSON number, a
\* JSON string, an object cut off before its end, or more words.
Paddings == {"", "ws", "words"}

Bodies == {"object", "array_of_object", "array", "number", "string",
           "cut_object", "words"}

RawContent(lead, body, trail) == [lead |-> lead, body |-> body, trail |-> trail]

RawContents ==
    {RawContent(l, b, t) : l \in Paddings, b \in Bodies, t \in Paddings}

\* json.loads accepts the text: a JSON value with nothing but whitespace
\* around it
JsonLoads(raw) ==
    /\ raw.lead \in {"", "ws"}
    /\ raw.trail \in {"", "ws"}
    /\ raw.body \notin {"cut_object", "words"}

\* _safe_json_parse: the kind of the value parsed, "None" when json.loads
\* raises
_safe_json_parse(raw) == IF JsonLoads(raw) THEN raw.body ELSE "None"

\* the text holds a complete JSON object
EmbedsObject(raw) == raw.body \in {"object", "array_of_object"}

\* The shapes the services ask for, by the tests of the fallback: whether
\* json.dumps(response_format) holds "plan", "post_text" or "post", and
\* "thinking".  PLAN_SCHEMA and MENTION_PLAN_SCHEMA hold "plan";
\* POST_TEXT_SCHEMA holds "post_text"; TOOL_REACTION_SCHEMA holds "thinking"
\* and, in a description, "post"; the step decision schema holds "thinking"
\* and "create_post"; REPLY_TEXT_SCHEMA and MENTION_SELECTION_SCHEMA hold
\* none of them.
Shape(name, plan, post, thinking) ==
    [name |-> name, plan |-> plan, post |-> post, thinking |-> thinking]

Shapes ==
    {Shape("PLAN_SCHEMA", TRUE, TRUE, FALSE),
     Shape("POST_TEXT_SCHEMA", FALSE, TRUE, FALSE),
     Shape("TOOL_REACTION_SCHEMA", FALSE, TRUE, TRUE),
     Shape("step_decision", FALSE, TRUE, TRUE),
     Shape("REPLY_TEXT_SCHEMA", FALSE, FALSE, FALSE),
     Shape("MENTION_SELECTION_SCHEMA", FALSE, FALSE, FALSE)}

\* what chat() returns: the parsed object, or a wrapper around the text
Decoded(kind, keys) == [kind |-> kind, keys |-> keys]

\* _normalize_structured_response
_normalize_structured_response(raw, response_format) ==
    IF _safe_json_parse(raw) = "object" THEN Decoded("object", {})
    ELSE IF response_format.plan THEN Decoded("default", {"reasoning", "plan"})
    ELSE IF response_format.post THEN Decoded("default", {"post_text"})
    ELSE IF response_format.thinking THEN Decoded("default", {"thinking"})
    ELSE Decoded("default", {"content"})

NotDecoded == Decoded("<not called>", {})

\* no chat() call is studied
LlmIdle ==
    /\ llmIn = [raw |-> RawContent("", "object", ""),
                response_format |-> Shape("PLAN_SCHEMA", TRUE, TRUE, FALSE)]
    /\ llmOut = NotDecoded

\* chat(messages, response_format) on a response whose content is raw
ChatDecode ==
    /\ llmOut = NotDecoded
    /\ llmOut' = _normalize_structured_response(llmIn.raw, llmIn.response_format)
    /\ UNCHANGED <<llmIn, sanVars, cfgVars, overlap, clockVars, gateVars, ledgerVars,
                   platformVars, serviceVars>>

----------------------------------------------------------------------------
(* services/autopost.py: AutoPostService._sanitize_plan *)

\* A plan step as the model may send it.  isDict: the element is a mapping.
\* tool: the value under "tool"; params: the value under "params".
ToolValues ==
    {"web_search", "generate_image", "get_twitter_profile", "bogus",
     "<missing>", "<list>"}

ParamValues == {"mapping", "<missing>", "<str>"}

NonDictStep == [isDict |-> FALSE, tool |-> "<missing>", params |-> "<missing>"]

DictStep(t, p) == [isDict |-> TRUE, tool |-> t, params |-> p]

\* `x in TOOLS` on a dict hashes x: an unhashable x raises TypeError
Unhashable(t) == t = "<list>"

\* step.get("params", {}): an absent key reads as the empty mapping
ParamsOf(step) == IF step.params = "<missing>" THEN "mapping" ELSE step.params

\* the for loop of _sanitize_plan from element i on; the result is the loop's
\* `sanitized`, or the exception that left the function
RECURSIVE SanitizeLoop(_, _, _, _)
SanitizeLoop(plan, i, sanitized, has_image) ==
    IF i > Len(plan) THEN [exc |-> "", plan |-> sanitized]
    ELSE LET step == plan[i] IN
         IF ~step.isDict THEN SanitizeLoop(plan, i + 1, sanitized, has_image)
         ELSE IF Unhashable(step.tool) THEN [exc |-> "TypeError", plan |-> <<>>]
         ELSE IF step.tool \notin TOOLS
              THEN SanitizeLoop(plan, i + 1, sanitized, has_image)
         ELSE IF step.tool = "generate_image" /\ has_image
              THEN SanitizeLoop(plan, i + 1, sanitized, has_image)
         ELSE LET appended ==
                      Append(sanitized,
                             [tool |-> step.tool, params |-> ParamsOf(step)])
              IN IF Len(appended) >= 3
                 THEN [exc |-> "", plan |-> appended]
                 ELSE SanitizeLoop(plan, i + 1, appended,
                                   has_image \/ step.tool = "generate_image")

\* [s for s in sanitized if s["tool"] == "generate_image"]
ImageSteps(sanitized) == SelectSeq(sanitized, LAMBDA s : s.tool = "generate_image")

NonImageSteps(sanitized) == SelectSeq(sanitized, LAMBDA s : s.tool /= "generate_image")

\* the loop's list returned as it is, for comparison
FinalPlanInLoopOrder(sanitized) == sanitized

\* non_image_steps + image_steps[:1]
FinalPlan(sanitized) ==
    NonImageSteps(sanitized) \o SubSeq(ImageSteps(sanitized), 1,
        IF Len(ImageSteps(sanitized)) >= 1 THEN 1 ELSE 0)

\* _sanitize_plan(plan); raw = [isList, items]
_sanitize_plan(raw) ==
    IF ~raw.isList THEN [exc |-> "", plan |-> <<>>]
    ELSE LET r == SanitizeLoop(raw.items, 1, <<>>, FALSE) IN
         IF r.exc /= "" THEN r
         ELSE [exc |-> "", plan |-> FinalPlan(r.plan)]

----------------------------------------------------------------------------
(* Texts.  A text the model returns is [lead, core]: `lead` whitespace    *)
(* characters around `core` characters that start and end with a          *)
(* non-blank.  A text handed on for publishing is [src, pre, ell, fb]:    *)
(* the first `pre` characters of a model text of `src` characters,        *)
(* followed by "..." when ell, or fallback tweet number fb when fb > 0.    *)

\* the Twitter limit used by the slices and comparisons of the publish paths
TweetLimit == 280

\* len("...")
EllipsisLen == 3

RawText(lead, core) == [lead |-> lead, core |-> core]

\* str.strip(): the characters of the core
Strip(raw) == raw.core

NoText == [src |-> 0, pre |-> 0, ell |-> FALSE, fb |-> 0]

\* len(x) for x in FALLBACK_TWEETS
FallbackLens == <<74, 56, 61, 57, 38, 62, 38>>

\* random.choice(FALLBACK_TWEETS)[:280], choice number k
FallbackText(k) == [src |-> 0, pre |-> Min(FallbackLens[k], TweetLimit), ell |-> FALSE, fb |-> k]

\* len() of a text handed on for publishing
TextLen(t) == t.pre + (IF t.ell THEN EllipsisLen ELSE 0)

\* autopost.py: post_text.strip()[:280]
AutopostTruncate(raw) ==
    [src |-> Strip(raw), pre |-> Min(Strip(raw), TweetLimit), ell |-> FALSE, fb |-> 0]

\* text[:280] + "...", for comparison
TruncateThenEllipsis(raw) ==
    IF Strip(raw) > TweetLimit
    THEN [src |-> Strip(raw), pre |-> TweetLimit, ell |-> TRUE, fb |-> 0]
    ELSE [src |-> Strip(raw), pre |-> Strip(raw), ell |-> FALSE, fb |-> 0]

\* create_post / create_reply / _process_single_mention:
\* text = text.strip(); if len(text) > 280: text = text[:277] + "..."
TruncateWithEllipsis(raw) ==
    IF Strip(raw) > TweetLimit
    THEN [src |-> Strip(raw), pre |-> TweetLimit - EllipsisLen, ell |-> TRUE, fb |-> 0]
    ELSE [src |-> Strip(raw), pre |-> Strip(raw), ell |-> FALSE, fb |-> 0]

\* the texts the model returns
TextCores == {0, 1, TweetLimit, MaxTextLen}

ModelTexts == {RawText(l, c) : l \in {0, 1}, c \in TextCores}

----------------------------------------------------------------------------
(* services/twitter.py and services/database.py *)

\* TwitterClient.post / reply: one create_tweet call.  It raises while
\* transient failures are left, otherwise the tweet gets the next id.
CreateTweetFails == postFailsLeft > 0

NextTweetId == Len(publishLog) + 1

PublishEntry(path, kind, text, ok) ==
    [path |-> path, kind |-> kind, text |-> text, ok |-> ok]

\* the platform after one create_tweet call
CreateTweet(path, kind, text) ==
    /\ publishLog' = Append(publishLog,
                            PublishEntry(path, kind, text, ~CreateTweetFails))
    /\ postFailsLeft' = IF CreateTweetFails THEN postFailsLeft - 1 ELSE 0

\* Database.save_post: INSERT INTO posts
save_post(text, tweet_id, include_picture) ==
    Append(posts, [text |-> text, tweet_id |-> tweet_id,
                   include_picture |-> include_picture])

\* a row of table actions; tweet_id 0 is NULL; created_at DEFAULT NOW()
ActionRow(action_type, text, tweet_id, include_picture, reply_to_tweet_id, day) ==
    [action_type |-> action_type, text |-> text, tweet_id |-> tweet_id,
     include_picture |-> include_picture,
     reply_to_tweet_id |-> reply_to_tweet_id, created_day |-> day]

\* Database.save_action: INSERT INTO actions
save_action(action_type, text, tweet_id, include_picture, reply_to_tweet_id) ==
    Append(actions, ActionRow(action_type, text, tweet_id, include_picture,
                              reply_to_tweet_id, db_date))

\* ids of the tweets that mention the account
MentionIds == 1..MaxMentions

\* a row of table mentions; has_reply FALSE: our_reply is NULL; author_text
\* 0 is "", n > 0 the text of the mention as observed the n-th time
MentionRow(tweet_id, author_text, has_reply, our_reply, action, tools_used) ==
    [tweet_id |-> tweet_id, action |-> action, author_text |-> author_text,
     has_reply |-> has_reply, our_reply |-> our_reply,
     tools_used |-> tools_used]

\* the rows of `ms` stored for a tweet_id
RowsFor(ms, tweet_id) == {i \in 1..Len(ms) : ms[i].tweet_id = tweet_id}

\* SELECT 1 FROM mentions WHERE tweet_id = $1 [AND action != 'pending']
MentionExistsIn(ms, tweet_id, include_pending) ==
    \E i \in RowsFor(ms, tweet_id) : include_pending \/ ms[i].action /= "pending"

\* Database.mention_exists(tweet_id, include_pending)
mention_exists(tweet_id, include_pending) ==
    MentionExistsIn(mentions, tweet_id, include_pending)

\* a table without the UNIQUE constraint, for comparison
InsertNeverRaises(ms, tweet_id) == FALSE

\* Database.save_mention is a plain INSERT; tweet_id is UNIQUE, so the
\* INSERT raises UniqueViolationError when the id already has a row
SaveMentionRaises(ms, tweet_id) == RowsFor(ms, tweet_id) /= {}

\* Database.save_mention, the INSERT having been accepted
save_mention(ms, tweet_id, author_text, has_reply, our_reply, action, tools_used) ==
    Append(ms, MentionRow(tweet_id, author_text, has_reply, our_reply, action,
                          tools_used))

\* an UPDATE that also clears author_text, for comparison
update_mention_clearing_text(ms, tweet_id, our_reply, action, tools_used) ==
    [i \in 1..Len(ms) |->
        IF ms[i].tweet_id = tweet_id
        THEN [ms[i] EXCEPT !.action = action, !.has_reply = TRUE,
                           !.our_reply = our_reply, !.tools_used = tools_used,
                           !.author_text = 0]
        ELSE ms[i]]

\* an UPDATE that stores the reply and leaves the row pending, for comparison
update_mention_leaving_pending(ms, tweet_id, our_reply, action, tools_used) ==
    [i \in 1..Len(ms) |->
        IF ms[i].tweet_id = tweet_id
        THEN [ms[i] EXCEPT !.action = "pending", !.has_reply = TRUE,
                           !.our_reply = our_reply, !.tools_used = tools_used]
        ELSE ms[i]]

\* Database.update_mention:
\* UPDATE mentions SET our_reply, action, tools_used WHERE tweet_id = $1
update_mention(ms, tweet_id, our_reply, action, tools_used) ==
    [i \in 1..Len(ms) |->
        IF ms[i].tweet_id = tweet_id
        THEN [ms[i] EXCEPT !.action = action, !.has_reply = TRUE,
                           !.our_reply = our_reply, !.tools_used = tools_used]
        ELSE ms[i]]

\* SELECT COUNT(*) with no filter on action_type, for comparison
count_all_actions_today(action_type) ==
    Cardinality({i \in 1..Len(actions) : actions[i].created_day >= db_date})

\* Database.count_actions_today(action_type):
\* WHERE created_at >= CURRENT_DATE AND action_type = $1
count_actions_today(action_type) ==
    Cardinality({i \in 1..Len(actions) :
                    /\ actions[i].created_day >= db_date
                    /\ actions[i].action_type = action_type})

\* the day the process is started on
StartDay == 1

LedgerInit ==
    /\ posts = <<>>
    /\ actions = <<>>
    /\ db_date = StartDay
    /\ mentions = <<>>

\* the ledger of a process that has already recorded PriorPosts posts today
PriorActions ==
    [i \in 1..PriorPosts |->
        ActionRow("post", FallbackText(1), 0 - i, FALSE, 0, StartDay)]

LedgerWithPriorPosts ==
    /\ posts = <<>>
    /\ actions = PriorActions
    /\ db_date = StartDay
    /\ mentions = <<>>

PlatformInit ==
    /\ publishLog = <<>>
    /\ postFailsLeft \in 0..MaxPublishFails

----------------------------------------------------------------------------
(* services/autopost.py: AutoPostService.run *)

\* run() has not been called / has returned
AutopostIdle ==
    [pc |-> "idle", plan |-> <<>>, i |-> 1, image_bytes |-> FALSE,
     tools_used |-> <<>>, messages |-> 0, llm_calls |-> 0,
     post_text |-> NoText, media |-> FALSE, faults |-> {},
     cycle |-> 1, failures |-> 0,
     result |-> [success |-> FALSE, error |-> "<not run>", reason |-> "<none>"]]

\* return {"success": False, "error": str(e)}: the except clause at the
\* bottom of run
AutopostFail(a, err) ==
    [a EXCEPT !.pc = "done",
              !.result = [success |-> FALSE, error |-> err, reason |-> "<none>"]]

\* return {"success": False, "error": f"posting_blocked: {reason}", ...}
AutopostBlocked(a, reason) ==
    [a EXCEPT !.pc = "done",
              !.result = [success |-> FALSE, error |-> "posting_blocked",
                          reason |-> reason]]

\* an external call of this cycle failed: remembered to tell the cycles in
\* which nothing outside the program went wrong
WithFault(a, f) == [a EXCEPT !.faults = @ \cup {f}]

\* the plans the model returns to the planner call
ModelPlanSteps ==
    {DictStep(t, p) : t \in {"web_search", "generate_image"},
                      p \in {"mapping", "<str>"}}
    \cup {DictStep(t, "mapping") : t \in {"get_twitter_profile", "bogus", "<list>"}}

ModelPlans ==
    {[isList |-> FALSE, items |-> <<>>]}
    \cup {[isList |-> TRUE, items |-> s] :
            s \in SeqsUpTo(ModelPlanSteps, MaxModelPlanLen)}

\* a run() that learns of the denial only after its planner call, for
\* comparison
AutopostStartLateCheck ==
    /\ appPhase = "running"
    /\ autopost.pc = "idle"
    /\ \/ /\ ~can_post(tier_manager).ok
          /\ autopost' = AutopostBlocked([autopost EXCEPT !.llm_calls = 1],
                                         can_post(tier_manager).reason)
       \/ /\ can_post(tier_manager).ok
          /\ autopost' = [autopost EXCEPT !.pc = "plan", !.messages = 2]
    /\ UNCHANGED <<cfgVars, overlap, llmVars, clockVars, sanVars, gateVars, ledgerVars, platformVars, agent, legacy>>

\* Step 0 and [1/5]: the tier check, then db.get_recent_posts_formatted
AutopostStart ==
    /\ appPhase = "running"
    /\ autopost.pc = "idle"
    /\ \/ /\ ~can_post(tier_manager).ok
          /\ autopost' = AutopostBlocked(autopost, can_post(tier_manager).reason)
       \/ /\ can_post(tier_manager).ok
          /\ \/ autopost' = [autopost EXCEPT !.pc = "plan", !.messages = 2]
             \/ autopost' = AutopostFail(WithFault(autopost, "db"), "db_error")
    /\ UNCHANGED <<cfgVars, overlap, llmVars, clockVars, sanVars, gateVars, ledgerVars, platformVars, agent, legacy>>

\* [2/5]: llm.chat(messages, PLAN_SCHEMA), _sanitize_plan, the two log lines
\* (reasoning[:100] raises TypeError unless reasoning can be sliced)
AutopostPlan ==
    /\ autopost.pc = "plan"
    /\ \/ autopost' = AutopostFail(WithFault(autopost, "llm"), "llm_error")
       \/ \E raw_plan \in ModelPlans, reasoningIsStr \in BOOLEAN :
            LET a == [autopost EXCEPT !.llm_calls = @ + 1]
                san == _sanitize_plan(raw_plan)
            IN IF san.exc /= "" THEN autopost' = AutopostFail(a, san.exc)
               ELSE IF ~reasoningIsStr THEN autopost' = AutopostFail(a, "TypeError")
               ELSE autopost' = [a EXCEPT !.pc = "tools", !.plan = san.plan,
                                          !.i = 1, !.messages = @ + 1]
    /\ UNCHANGED <<cfgVars, overlap, llmVars, clockVars, sanVars, gateVars, ledgerVars, platformVars, agent, legacy>>

\* params.get("query", "") / params.get("prompt", ""): AttributeError when
\* the step's params is no mapping
ParamsGetRaises(step) ==
    step.tool \in {"web_search", "generate_image"} /\ step.params /= "mapping"

\* what running one plan step does before the reaction call: "raise" leaves
\* run() through its except clause; otherwise the new image_bytes and whether
\* a tool-result message was appended.  web_search returns a str (the
\* results, or "Error: Search ..." when the search failed), so
\* result.get(...) raises AttributeError; params.get(...) raises it too when
\* params is no mapping.
ExecuteStep(step, image_outcome, image_bytes) ==
    IF step.tool = "web_search"
    THEN [exc |-> "AttributeError", image_bytes |-> image_bytes, appended |-> FALSE]
    ELSE IF step.tool = "generate_image"
    THEN IF ParamsGetRaises(step)
         THEN [exc |-> "AttributeError", image_bytes |-> image_bytes, appended |-> FALSE]
         ELSE IF image_outcome = "raise"
         THEN [exc |-> "", image_bytes |-> FALSE, appended |-> FALSE]
         ELSE [exc |-> "", image_bytes |-> image_outcome = "bytes", appended |-> TRUE]
    ELSE [exc |-> "", image_bytes |-> image_bytes, appended |-> FALSE]

\* [3/5]: one iteration of `for i, step in enumerate(plan)`: the tool, then
\* the reaction call llm.chat(messages, TOOL_REACTION_SCHEMA)
AutopostTool ==
    /\ autopost.pc = "tools"
    /\ autopost.i <= Len(autopost.plan)
    /\ \E image_outcome \in {"bytes", "none", "raise"}, search_ok \in BOOLEAN,
          llm_ok \in BOOLEAN :
         LET step == autopost.plan[autopost.i]
             r == ExecuteStep(step, image_outcome, autopost.image_bytes)
             a0 == [autopost EXCEPT !.tools_used = Append(@, step.tool)]
             a1 == IF /\ step.params = "mapping"
                      /\ \/ step.tool = "generate_image" /\ image_outcome /= "bytes"
                         \/ step.tool = "web_search" /\ ~search_ok
                   THEN WithFault(a0, "tool") ELSE a0
         IN /\ step.tool /= "web_search" => search_ok
            /\ IF r.exc /= "" THEN autopost' = AutopostFail(a1, r.exc)
               ELSE IF ~llm_ok
               THEN autopost' = AutopostFail(
                        WithFault([a1 EXCEPT !.image_bytes = r.image_bytes], "llm"),
                        "llm_error")
               ELSE autopost' =
                        [a1 EXCEPT !.image_bytes = r.image_bytes,
                                   !.messages = @ + (IF r.appended THEN 1 ELSE 0) + 1,
                                   !.llm_calls = @ + 1,
                                   !.i = @ + 1]
    /\ UNCHANGED <<cfgVars, overlap, llmVars, clockVars, sanVars, gateVars, ledgerVars, platformVars, agent, legacy>>

\* [4/5]: llm.chat(messages, POST_TEXT_SCHEMA), the extraction of post_text
\* (.strip() raises AttributeError on a value that is no string), the slice
\* to 280 and the fallback tweet
AutopostGenerate ==
    /\ autopost.pc = "tools"
    /\ autopost.i > Len(autopost.plan)
    /\ \/ autopost' = AutopostFail(WithFault(autopost, "llm"), "llm_error")
       \/ autopost' = AutopostFail([autopost EXCEPT !.llm_calls = @ + 1],
                                   "AttributeError")
       \/ \E raw \in ModelTexts, k \in 1..Len(FallbackLens) :
            LET t == AutopostTruncate(raw)
            IN autopost' =
                 [autopost EXCEPT
                    !.pc = "publish", !.messages = @ + 1, !.llm_calls = @ + 1,
                    !.post_text = IF TextLen(t) = 0 THEN FallbackText(k) ELSE t]
    /\ UNCHANGED <<cfgVars, overlap, llmVars, clockVars, sanVars, gateVars, ledgerVars, platformVars, agent, legacy>>

\* Steps 8 and 9: upload_media (a failure drops the image), twitter.post,
\* db.save_post, the success result
AutopostPublish ==
    /\ autopost.pc = "publish"
    /\ \E upload_ok \in BOOLEAN, db_ok \in BOOLEAN :
         LET has_image == autopost.image_bytes /\ upload_ok
             a0 == [autopost EXCEPT !.image_bytes = has_image, !.media = has_image]
             a1 == IF autopost.image_bytes /\ ~upload_ok
                   THEN WithFault(a0, "upload") ELSE a0
         IN /\ autopost.image_bytes \/ upload_ok
            /\ CreateTweet("batch", "post", autopost.post_text)
            /\ IF CreateTweetFails
               THEN /\ autopost' = AutopostFail(WithFault(a1, "twitter"), "twitter_error")
                    /\ UNCHANGED ledgerVars
               ELSE IF ~db_ok
               THEN /\ autopost' = AutopostFail(WithFault(a1, "db"), "db_error")
                    /\ UNCHANGED ledgerVars
               ELSE /\ autopost' = [a1 EXCEPT !.pc = "done",
                                       !.result = [success |-> TRUE, error |-> "",
                                                   reason |-> "<none>"]]
                    /\ posts' = save_post(autopost.post_text, NextTweetId, has_image)
                    /\ UNCHANGED <<actions, mentions>>
    /\ UNCHANGED <<cfgVars, overlap, llmVars, clockVars, sanVars, gateVars, agent, legacy>>

----------------------------------------------------------------------------
(* services/unified_agent.py and the tools under tools/unified, tools/shared *)

\* max_iterations of UnifiedAgent.run
max_iterations == 30

\* TierManager.can_use_mentions
can_use_mentions(tm) ==
    IF ~settings.allow_mentions
    THEN [ok |-> FALSE, reason |-> "mentions_disabled_in_settings"]
    ELSE IF ~tm.is_initialized THEN [ok |-> TRUE, reason |-> "<none>"]
    ELSE IF tm.tier \in KnownTiers /\ TierMentions(tm.tier)
         THEN [ok |-> TRUE, reason |-> "<none>"]
    ELSE [ok |-> FALSE, reason |-> "mentions_not_available"]

\* get_tool_func(name): a registered executor exists
get_tool_func(name) == name \in ALL_TOOLS

\* UnifiedAgent._get_tier
_get_tier(tm) == IF can_use_mentions(tm).ok THEN "basic+" ELSE "free"

\* tool names the model may put in a decision
DecisionTools == ALL_TOOLS \cup {"", "bogus", "CYCLE_FINISHED", "<list>"}

\* "CYCLE_FINISHED" in f"Error: Unknown tool '{tool_name}'"
NameHoldsMarker(tool_name) == tool_name = "CYCLE_FINISHED"

AgentIdle ==
    [pc |-> "idle", iteration |-> 0, posts_this_cycle |-> 0,
     replies_this_cycle |-> 0, tools_used_for_current_action |-> <<>>,
     llm_calls |-> 0, dispatches |-> 0, observations |-> 0,
     finish_chosen |-> FALSE, marker_seen |-> FALSE, raised |-> FALSE,
     limit_denials |-> {}, pending_seen_again |-> FALSE,
     get_mentions_raised |-> FALSE, fetch_left_unstored |-> FALSE,
     unknown_tool |-> FALSE, aux_since_publish |-> <<>>,
     reply_aux |-> <<>>, reply_target |-> 0,
     image_executor_ran |-> FALSE, cycle |-> 1, failures |-> 0,
     result |-> [success |-> FALSE, error |-> "<not run>", posts |-> 0,
                 replies |-> 0, iterations |-> 0]]

\* the dict after `# Summary`
AgentSummary(a) ==
    [a EXCEPT !.pc = "done",
              !.result = [success |-> TRUE, error |-> "",
                          posts |-> a.posts_this_cycle,
                          replies |-> a.replies_this_cycle,
                          iterations |-> a.iteration]]

\* an except clause that returns the summary dict, for comparison
AgentFailReturnsSummary(a, err) == AgentSummary(a)

\* the except clause of run
AgentFail(a, err) ==
    [a EXCEPT !.pc = "done",
              !.result = [success |-> FALSE, error |-> err, posts |-> 0,
                          replies |-> 0, iterations |-> 0]]

\* an exception was raised during the cycle
Raised(a) == [a EXCEPT !.raised = TRUE]

\* the head of one loop iteration: iteration += 1, llm.chat returned a
\* decision, and _execute_tool is entered
Dispatched(a) ==
    [a EXCEPT !.iteration = @ + 1, !.llm_calls = @ + 1, !.dispatches = @ + 1,
              !.unknown_tool = FALSE]

\* what happened in the cycle: the executor of an auxiliary tool was entered
AuxiliaryRan(a, tool_name) ==
    [a EXCEPT !.aux_since_publish = Append(@, tool_name)]

\* what happened in the cycle: create_post or create_reply published and
\* recorded its action; for a reply, the auxiliary tools that led to it and
\* the mention it answers are remembered
PublishSucceeded(a, tool_name, target) ==
    [a EXCEPT !.aux_since_publish = <<>>,
              !.reply_aux = IF tool_name = "create_reply"
                            THEN a.aux_since_publish ELSE @,
              !.reply_target = IF tool_name = "create_reply" THEN target ELSE @]

\* _execute_tool: "Track tool usage (except action tools and finish)"
Tracked(a, tool_name) ==
    IF tool_name \notin {"create_post", "create_reply", "finish_cycle"}
    THEN [a EXCEPT !.tools_used_for_current_action = Append(@, tool_name)]
    ELSE a

\* the tail of one loop iteration, the tool having returned a string:
\*   if tool_name == "finish_cycle" or "CYCLE_FINISHED" in tool_result: break
\* then the observation is appended and `while iteration < max_iterations`
\* is evaluated again
EndOfIteration(a, tool_name, has_marker) ==
    IF tool_name = "finish_cycle" \/ has_marker
    THEN AgentSummary([a EXCEPT !.finish_chosen = (tool_name = "finish_cycle"),
                                !.marker_seen = has_marker])
    ELSE LET b == [a EXCEPT !.observations = @ + 1]
         IN IF b.iteration < max_iterations THEN b ELSE AgentSummary(b)

\* run() up to the loop: the counters are reset, _get_tier, _build_context
\* (its storage reads may raise)
AgentStart ==
    /\ appPhase = "running"
    /\ agent.pc = "idle"
    /\ \/ agent' = [agent EXCEPT !.pc = "loop"]
       \/ agent' = AgentFail(Raised(agent), "db_error")
    /\ UNCHANGED <<cfgVars, overlap, llmVars, clockVars, sanVars, gateVars, ledgerVars, platformVars, autopost, legacy>>

\* llm.chat raises inside the loop
AgentLlmFails ==
    /\ agent.pc = "loop"
    /\ agent' = AgentFail(Raised([agent EXCEPT !.iteration = @ + 1]),
                          "llm_error")
    /\ UNCHANGED <<cfgVars, overlap, llmVars, clockVars, sanVars, gateVars, ledgerVars, platformVars, autopost, legacy>>

\* the decision names finish_cycle: the tool returns "CYCLE_FINISHED: ..."
\* (or **params raises and the error string comes back), and the loop breaks
AgentFinishCycle ==
    /\ agent.pc = "loop"
    /\ agent' = EndOfIteration(Dispatched(agent), "finish_cycle", TRUE)
    /\ UNCHANGED <<cfgVars, overlap, llmVars, clockVars, sanVars, gateVars, ledgerVars, platformVars, autopost, legacy>>

\* the decision names no registered tool: a missing or empty name, an unknown
\* name (the error string that comes back quotes it); an unhashable name
\* makes `name in ALL_TOOLS` raise TypeError, which leaves run() through its
\* except clause
AgentUnknownTool ==
    /\ agent.pc = "loop"
    /\ \E tool_name \in {t \in DecisionTools : ~get_tool_func(t)} :
         IF Unhashable(tool_name)
         THEN agent' = AgentFail(Raised(Dispatched(agent)), "TypeError")
         ELSE agent' = EndOfIteration(
                           [Dispatched(agent) EXCEPT !.unknown_tool = TRUE],
                           tool_name, NameHoldsMarker(tool_name))
    /\ UNCHANGED <<cfgVars, overlap, llmVars, clockVars, sanVars, gateVars, ledgerVars, platformVars, autopost, legacy>>

\* the decision names web_search, get_twitter_profile or
\* get_conversation_history.  Each returns a string built from text that
\* comes from outside (search results, a profile's bio, stored mention
\* texts): has_marker says whether that text holds "CYCLE_FINISHED".  With
\* params that do not fit, the call raises and the error string comes back.
AgentSharedTool ==
    /\ agent.pc = "loop"
    /\ Len(agent.tools_used_for_current_action) < MaxAuxTools
    /\ \E tool_name \in SharedTools, params_ok \in BOOLEAN, has_marker \in BOOLEAN :
         /\ params_ok \/ ~has_marker
         /\ agent' = EndOfIteration(
                         IF params_ok
                         THEN Tracked(AuxiliaryRan(Dispatched(agent), tool_name),
                                      tool_name)
                         ELSE Raised(Tracked(AuxiliaryRan(Dispatched(agent),
                                                          tool_name),
                                             tool_name)),
                         tool_name, has_marker)
    /\ UNCHANGED <<cfgVars, overlap, llmVars, clockVars, sanVars, gateVars, ledgerVars, platformVars, autopost, legacy>>

\* the decision names generate_image, which get_tool_func finds in ALL_TOOLS:
\* it returns bytes or None, and `"CYCLE_FINISHED" in tool_result` raises
\* TypeError on either; with params that do not fit, the error string comes
\* back and the loop goes on
AgentGenerateImage ==
    /\ agent.pc = "loop"
    /\ Len(agent.tools_used_for_current_action) < MaxAuxTools
    /\ \E params_ok \in BOOLEAN :
         LET a == Tracked(AuxiliaryRan(Dispatched(agent), "generate_image"),
                          "generate_image")
         IN IF params_ok
            THEN agent' = AgentFail(
                              Raised([a EXCEPT !.image_executor_ran = TRUE]),
                              "TypeError")
            ELSE agent' = EndOfIteration(Raised(a), "generate_image", FALSE)
    /\ UNCHANGED <<cfgVars, overlap, llmVars, clockVars, sanVars, gateVars, ledgerVars, platformVars, autopost, legacy>>

\* get_mentions, the loop over the mentions the platform returned (ids in
\* `fetched`, from position i): a mention with no processed row is listed and
\* INSERTed as pending; the INSERT raises when the id has a (pending) row
RECURSIVE GetMentionsLoop(_, _, _, _, _)
GetMentionsLoop(ms, fetched, text, i, listed) ==
    IF i > Len(fetched) THEN [exc |-> "", mentions |-> ms, listed |-> listed]
    ELSE LET id == fetched[i] IN
         IF MentionExistsIn(ms, id, FALSE)
         THEN GetMentionsLoop(ms, fetched, text, i + 1, listed)
         ELSE IF SaveMentionRaises(ms, id)
         THEN [exc |-> "UniqueViolationError", mentions |-> ms, listed |-> listed]
         ELSE GetMentionsLoop(
                  save_mention(ms, id, text, FALSE, NoText, "pending", <<>>),
                  fetched, text, i + 1, listed + 1)

\* the texts a mention is observed with (mention["text"])
MentionTexts == {1, 2}

\* a mention of the fetched list is stored as pending
PendingAmong(ms, fetched) ==
    \E k \in 1..Len(fetched) :
        /\ MentionExistsIn(ms, fetched[k], TRUE)
        /\ ~MentionExistsIn(ms, fetched[k], FALSE)

\* the lists twitter.get_mentions may return when the mentions `ids` exist
\* on the platform: mentions in one order each
FetchedAmong(ids) ==
    {s \in SeqsUpTo(ids, Cardinality(ids)) :
        \A i, j \in 1..Len(s) : i < j => s[i] < s[j]}

FetchedMentions == FetchedAmong(MentionIds)

\* a mention of the fetched list has no row
NotStoredAmong(ms, fetched) ==
    \E k \in 1..Len(fetched) : ~MentionExistsIn(ms, fetched[k], TRUE)

\* the decision names get_mentions, the mentions `ids` existing on the
\* platform
AgentGetMentionsAmong(ids) ==
    /\ agent.pc = "loop"
    /\ Len(agent.tools_used_for_current_action) < MaxAuxTools
    /\ \E fetch_ok \in BOOLEAN, fetched \in FetchedAmong(ids),
          text \in MentionTexts, has_marker \in BOOLEAN :
         LET a == Tracked(AuxiliaryRan(Dispatched(agent), "get_mentions"),
                          "get_mentions")
             r == GetMentionsLoop(mentions, fetched, text, 1, 0)
             b == IF PendingAmong(mentions, fetched)
                  THEN [a EXCEPT !.pending_seen_again = TRUE,
                                 !.fetch_left_unstored =
                                     @ \/ NotStoredAmong(r.mentions, fetched)]
                  ELSE a
         IN IF ~can_use_mentions(tier_manager).ok
            THEN /\ fetch_ok /\ fetched = <<>> /\ ~has_marker /\ text = 1
                 /\ agent' = EndOfIteration(a, "get_mentions", FALSE)
                 /\ UNCHANGED mentions
            ELSE IF ~fetch_ok
            THEN /\ fetched = <<>> /\ ~has_marker /\ text = 1
                 /\ agent' = EndOfIteration(Raised(a), "get_mentions", FALSE)
                 /\ UNCHANGED mentions
            ELSE /\ has_marker => (r.exc = "" /\ r.listed > 0)
                 /\ fetched = <<>> => text = 1
                 /\ agent' = EndOfIteration(
                                 IF r.exc /= ""
                                 THEN Raised([b EXCEPT !.get_mentions_raised = TRUE])
                                 ELSE b,
                                 "get_mentions", has_marker)
                 /\ mentions' = r.mentions
    /\ UNCHANGED <<cfgVars, overlap, llmVars, clockVars, sanVars, gateVars, posts, actions, platformVars, autopost, legacy>>

AgentGetMentions == AgentGetMentionsAmong(MentionIds)

\* `if posts_today > daily_limit`, for comparison
DailyLimitExceeded(count_today, daily_limit) == count_today > daily_limit

\* create_post: `if posts_today >= daily_limit`; create_reply:
\* `if replies_today >= daily_limit`
DailyLimitReached(count_today, daily_limit) == count_today >= daily_limit

\* the tool returned "Error: Daily post/reply limit reached"
LimitDenied(a, kind) == [a EXCEPT !.limit_denials = @ \cup {kind}]

\* an _execute_tool that counts a publish and keeps the tools list, for
\* comparison
CountedKeepingTools(a, tool_name, succeeded) ==
    IF ~succeeded THEN a
    ELSE IF tool_name = "create_post"
    THEN [a EXCEPT !.posts_this_cycle = @ + 1]
    ELSE [a EXCEPT !.replies_this_cycle = @ + 1]

\* _execute_tool after create_post / create_reply returned `result`:
\* `"successfully" in result.lower()` counts it and resets the tools list
Counted(a, tool_name, succeeded) ==
    IF ~succeeded THEN a
    ELSE IF tool_name = "create_post"
    THEN [a EXCEPT !.posts_this_cycle = @ + 1,
                   !.tools_used_for_current_action = <<>>]
    ELSE [a EXCEPT !.replies_this_cycle = @ + 1,
                   !.tools_used_for_current_action = <<>>]

\* the decision names create_post with a text that is a string.  The tool:
\* strip, the daily limit, the truncation, the image, twitter.post,
\* db.save_action.
AgentCreatePost ==
    /\ agent.pc = "loop"
    /\ IF DailyLimitReached(count_actions_today("post"),
                            get_daily_limits(tier_manager)[1])
       THEN /\ agent' = EndOfIteration(LimitDenied(Dispatched(agent), "post"),
                                       "create_post", FALSE)
            /\ UNCHANGED <<ledgerVars, platformVars>>
       ELSE /\ Cardinality({i \in 1..Len(publishLog) :
                               publishLog[i].path = "agent"}) < MaxPublishes
            /\ \E raw \in ModelTexts, image_generated \in BOOLEAN, db_ok \in BOOLEAN :
                 LET a == Dispatched(agent)
                     text == TruncateWithEllipsis(raw)
                 IN /\ image_generated => settings.enable_image_generation
                    /\ CreateTweet("agent", "post", text)
                    /\ IF CreateTweetFails
                       THEN /\ db_ok /\ ~image_generated
                            /\ agent' = EndOfIteration(Raised(a), "create_post", FALSE)
                            /\ UNCHANGED ledgerVars
                       ELSE IF ~db_ok
                       THEN /\ ~image_generated
                            /\ agent' = EndOfIteration(Raised(a), "create_post", FALSE)
                            /\ UNCHANGED ledgerVars
                       ELSE /\ agent' = EndOfIteration(
                                            Counted(PublishSucceeded(a, "create_post", 0),
                                                    "create_post", TRUE),
                                            "create_post", FALSE)
                            /\ actions' = save_action("post", text, NextTweetId,
                                                      image_generated, 0)
                            /\ UNCHANGED <<posts, mentions>>
    /\ UNCHANGED <<cfgVars, overlap, llmVars, clockVars, sanVars, gateVars, autopost, legacy>>

\* the decision names create_post with params that do not fit (no text, a
\* text that is no string): the call raises inside _execute_tool's try
AgentCreatePostBadParams ==
    /\ agent.pc = "loop"
    /\ agent' = EndOfIteration(Raised(Dispatched(agent)),
                               "create_post", FALSE)
    /\ UNCHANGED <<cfgVars, overlap, llmVars, clockVars, sanVars, gateVars, ledgerVars, platformVars, autopost, legacy>>

\* the decision names create_reply: the tier check, the daily limit, the
\* truncation, the image, twitter.reply, db.save_action (with no tweet_id),
\* then the mention row is updated or created
AgentCreateReply ==
    /\ agent.pc = "loop"
    /\ IF ~can_use_mentions(tier_manager).ok
       THEN /\ agent' = EndOfIteration(Dispatched(agent), "create_reply", FALSE)
            /\ UNCHANGED <<ledgerVars, platformVars>>
       ELSE IF DailyLimitReached(count_actions_today("reply"),
                                 get_daily_limits(tier_manager)[2])
       THEN /\ agent' = EndOfIteration(LimitDenied(Dispatched(agent), "reply"),
                                       "create_reply", FALSE)
            /\ UNCHANGED <<ledgerVars, platformVars>>
       ELSE /\ Cardinality({i \in 1..Len(publishLog) :
                               publishLog[i].path = "agent"}) < MaxPublishes
            /\ \E raw \in ModelTexts, target \in MentionIds,
                  image_generated \in BOOLEAN, db_ok \in BOOLEAN :
                 LET a == Dispatched(agent)
                     text == TruncateWithEllipsis(raw)
                     tools_used == agent.tools_used_for_current_action
                 IN /\ image_generated => settings.enable_image_generation
                    /\ CreateTweet("agent", "reply", text)
                    /\ IF CreateTweetFails
                       THEN /\ db_ok /\ ~image_generated
                            /\ agent' = EndOfIteration(Raised(a), "create_reply", FALSE)
                            /\ UNCHANGED ledgerVars
                       ELSE IF ~db_ok
                       THEN /\ ~image_generated
                            /\ agent' = EndOfIteration(Raised(a), "create_reply", FALSE)
                            /\ UNCHANGED ledgerVars
                       ELSE /\ agent' = EndOfIteration(
                                            Counted(PublishSucceeded(a, "create_reply",
                                                                     target),
                                                    "create_reply", TRUE),
                                            "create_reply", FALSE)
                            /\ actions' = save_action("reply", text, 0,
                                                      image_generated, target)
                            /\ mentions' =
                                 IF mention_exists(target, TRUE)
                                 THEN update_mention(mentions, target, text,
                                                     "agent_replied", tools_used)
                                 ELSE save_mention(mentions, target, 0, TRUE, text,
                                                   "agent_replied", tools_used)
                            /\ UNCHANGED posts
    /\ UNCHANGED <<cfgVars, overlap, llmVars, clockVars, sanVars, gateVars, autopost, legacy>>

----------------------------------------------------------------------------
(* services/unified_agent.py: two run() calls on the one UnifiedAgent instance
   of the process (the scheduler's job and POST /trigger-agent), interleaved
   at their awaits.  posts_this_cycle, replies_this_cycle and
   tools_used_for_current_action are fields of the instance; everything else
   is local to a call. *)

Runs == {1, 2}

\* a run() call: own_posts / own_replies count what this call published;
\* check_seen is the count its last create_post check read (-1: none),
\* reply_tools the copy of the tools list handed to its create_reply,
\* foreign_tools whether a reply of this call stored a tool that the other
\* call dispatched
RunIdle ==
    [pc |-> "idle", iteration |-> 0, own_posts |-> 0, own_replies |-> 0,
     check_seen |-> -1, check_admitted |-> FALSE, reply_tools |-> <<>>,
     foreign_tools |-> FALSE,
     result |-> [success |-> FALSE, error |-> "<not run>", posts |-> 0,
                 replies |-> 0]]

\* UnifiedAgent.__init__, no run() called yet; an entry of the tools list is
\* the tool's name, `by` remembers the call that dispatched it
OverlapIdle ==
    [posts_this_cycle |-> 0, replies_this_cycle |-> 0,
     tools_used_for_current_action |-> <<>>,
     run |-> [r \in Runs |-> RunIdle]]

\* a quota check that also counts the posts other calls have in flight, for
\* comparison
posts_today_with_in_flight ==
    count_actions_today("post")
        + Cardinality({r \in Runs : overlap.run[r].pc = "posting"})

\* create_post: posts_today = await db.count_actions_today("post")
posts_today == count_actions_today("post")

\* the names of the tools list, as create_reply joins them
ToolNames(tools) == [i \in 1..Len(tools) |-> tools[i].tool]

\* run() up to the loop: the counters of the instance are reset
OverlapStart(r) ==
    /\ appPhase = "running"
    /\ overlap.run[r].pc = "idle"
    /\ \/ overlap' = [overlap EXCEPT !.posts_this_cycle = 0,
                                      !.replies_this_cycle = 0,
                                      !.tools_used_for_current_action = <<>>,
                                      !.run[r].pc = "loop"]
       \/ overlap' = [overlap EXCEPT !.posts_this_cycle = 0,
                                      !.replies_this_cycle = 0,
                                      !.tools_used_for_current_action = <<>>,
                                      !.run[r].pc = "done",
                                      !.run[r].result.error = "db_error"]
    /\ UNCHANGED <<cfgVars, llmVars, clockVars, sanVars, gateVars, ledgerVars, platformVars, serviceVars>>

\* the decision names an auxiliary tool (web_search stands for them): its
\* name is appended to the list of the instance, the tool runs, the
\* observation is appended
OverlapAuxTool(r) ==
    /\ overlap.run[r].pc = "loop"
    /\ overlap.run[r].iteration < MaxOverlapSteps
    /\ overlap' = [overlap EXCEPT
                       !.tools_used_for_current_action =
                           Append(@, [tool |-> "web_search", by |-> r]),
                       !.run[r].iteration = @ + 1]
    /\ UNCHANGED <<cfgVars, llmVars, clockVars, sanVars, gateVars, ledgerVars, platformVars, serviceVars>>

\* the decision names create_post: the tool reads the day's count and
\* compares it with the daily limit; refused, it returns its error string;
\* admitted, it goes on to twitter.post
OverlapPostCheck(r) ==
    /\ overlap.run[r].pc = "loop"
    /\ overlap.run[r].iteration < MaxOverlapSteps
    /\ LET admitted == ~DailyLimitReached(posts_today,
                                          get_daily_limits(tier_manager)[1])
       IN overlap' = [overlap EXCEPT
                          !.run[r].iteration = @ + 1,
                          !.run[r].check_seen = count_actions_today("post"),
                          !.run[r].check_admitted = admitted,
                          !.run[r].pc = IF admitted THEN "posting" ELSE "loop"]
    /\ UNCHANGED <<cfgVars, llmVars, clockVars, sanVars, gateVars, ledgerVars, platformVars, serviceVars>>

\* create_post from twitter.post on: the post, db.save_action, and back in
\* _execute_tool the counter of the instance goes up and its list is emptied
OverlapPostPublish(r) ==
    /\ overlap.run[r].pc = "posting"
    /\ CreateTweet("agent", "post", FallbackText(1))
    /\ IF CreateTweetFails
       THEN /\ overlap' = [overlap EXCEPT !.run[r].pc = "loop"]
            /\ UNCHANGED ledgerVars
       ELSE /\ overlap' = [overlap EXCEPT
                               !.posts_this_cycle = @ + 1,
                               !.tools_used_for_current_action = <<>>,
                               !.run[r].own_posts = @ + 1,
                               !.run[r].pc = "loop"]
            /\ actions' = save_action("post", FallbackText(1), NextTweetId,
                                      FALSE, 0)
            /\ UNCHANGED <<posts, mentions>>
    /\ UNCHANGED <<cfgVars, llmVars, clockVars, sanVars, gateVars, serviceVars>>

\* the decision names create_reply: _execute_tool copies the tools list of
\* the instance for it, the tool checks the tier and the daily limit
OverlapReplyCheck(r) ==
    /\ overlap.run[r].pc = "loop"
    /\ overlap.run[r].iteration < MaxOverlapSteps
    /\ LET admitted ==
               /\ can_use_mentions(tier_manager).ok
               /\ ~DailyLimitReached(count_actions_today("reply"),
                                     get_daily_limits(tier_manager)[2])
       IN overlap' = [overlap EXCEPT
                          !.run[r].iteration = @ + 1,
                          !.run[r].reply_tools =
                              overlap.tools_used_for_current_action,
                          !.run[r].pc = IF admitted THEN "replying" ELSE "loop"]
    /\ UNCHANGED <<cfgVars, llmVars, clockVars, sanVars, gateVars, ledgerVars, platformVars, serviceVars>>

\* create_reply from twitter.reply on: the reply, db.save_action, the
\* mention row updated or created with the copied list, and back in
\* _execute_tool the counter of the instance goes up and its list is emptied
OverlapReplyPublish(r) ==
    /\ overlap.run[r].pc = "replying"
    /\ \E target \in MentionIds :
         LET tools_used == ToolNames(overlap.run[r].reply_tools)
         IN /\ CreateTweet("agent", "reply", FallbackText(1))
            /\ IF CreateTweetFails
               THEN /\ overlap' = [overlap EXCEPT !.run[r].pc = "loop"]
                    /\ UNCHANGED ledgerVars
               ELSE /\ overlap' =
                         [overlap EXCEPT
                             !.replies_this_cycle = @ + 1,
                             !.tools_used_for_current_action = <<>>,
                             !.run[r].own_replies = @ + 1,
                             !.run[r].foreign_tools =
                                 @ \/ \E i \in 1..Len(overlap.run[r].reply_tools) :
                                         overlap.run[r].reply_tools[i].by /= r,
                             !.run[r].pc = "loop"]
                    /\ actions' = save_action("reply", FallbackText(1), 0,
                                              FALSE, target)
                    /\ mentions' =
                         IF mention_exists(target, TRUE)
                         THEN update_mention(mentions, target, FallbackText(1),
                                             "agent_replied", tools_used)
                         ELSE save_mention(mentions, target, 0, TRUE,
                                           FallbackText(1), "agent_replied",
                                           tools_used)
                    /\ UNCHANGED posts
    /\ UNCHANGED <<cfgVars, llmVars, clockVars, sanVars, gateVars, serviceVars>>

\* the decision names finish_cycle: the loop is left and the summary is
\* built from the counters of the instance
OverlapFinish(r) ==
    /\ overlap.run[r].pc = "loop"
    /\ overlap' = [overlap EXCEPT
                       !.run[r].pc = "done",
                       !.run[r].result =
                           [success |-> TRUE, error |-> "",
                            posts |-> overlap.posts_this_cycle,
                            replies |-> overlap.replies_this_cycle]]
    /\ UNCHANGED <<cfgVars, llmVars, clockVars, sanVars, gateVars, ledgerVars, platformVars, serviceVars>>

----------------------------------------------------------------------------
(* services/mentions.py: MentionHandler *)

LegacyIdle ==
    [pc |-> "idle", selected |-> <<>>, i |-> 1, replied |-> 0, failed |-> 0,
     result |-> [success |-> FALSE, error |-> "<not run>", processed |-> 0]]

LegacyDone(l, ok, err) ==
    [l EXCEPT !.pc = "done",
              !.result = [success |-> ok, error |-> err, processed |-> l.replied]]

\* process_mentions_batch up to the loop over the selection: the tier
\* check, the fetch, the filter on mention_exists, the model's selection
\* (any sublist of the unprocessed mentions)
LegacyStart ==
    /\ appPhase = "running"
    /\ legacy.pc = "idle"
    /\ \E fetch_ok \in BOOLEAN, fetched \in FetchedMentions, selected \in FetchedMentions :
         IF ~can_use_mentions(tier_manager).ok
         THEN /\ fetch_ok /\ fetched = <<>> /\ selected = <<>>
              /\ legacy' = LegacyDone(legacy, FALSE, "mentions_blocked")
         ELSE IF ~fetch_ok
         THEN /\ fetched = <<>> /\ selected = <<>>
              /\ legacy' = LegacyDone(legacy, FALSE, "fetch_failed")
         ELSE /\ \A k \in 1..Len(selected) :
                    /\ \E j \in 1..Len(fetched) : fetched[j] = selected[k]
                    /\ ~mention_exists(selected[k], FALSE)
              /\ legacy' = IF selected = <<>>
                           THEN LegacyDone(legacy, TRUE, "")
                           ELSE [legacy EXCEPT !.pc = "processing",
                                               !.selected = selected]
    /\ UNCHANGED <<cfgVars, overlap, llmVars, clockVars, sanVars, gateVars, ledgerVars, platformVars, autopost, agent>>

\* the loop variable moves on; after the last selection the summary is built
LegacyAdvance(l, ok) ==
    LET m == [l EXCEPT !.i = @ + 1,
                       !.replied = IF ok THEN @ + 1 ELSE @,
                       !.failed = IF ok THEN @ ELSE @ + 1]
    IN IF m.i > Len(m.selected) THEN LegacyDone(m, TRUE, "") ELSE m

\* _process_single_mention ends before the reply is posted: an invalid
\* plan, a tool or a model call that raises, an empty reply text
LegacySkip ==
    /\ legacy.pc = "processing"
    /\ legacy' = LegacyAdvance(legacy, FALSE)
    /\ UNCHANGED <<cfgVars, overlap, llmVars, clockVars, sanVars, gateVars, ledgerVars, platformVars, autopost, agent>>

\* _process_single_mention from the reply text on: strip, the empty check,
\* the truncation, twitter.reply, db.save_mention (an INSERT)
LegacyReply ==
    /\ legacy.pc = "processing"
    /\ \E raw \in ModelTexts, tools_used \in SeqsUpTo(TOOLS, MaxAuxTools) :
         LET tweet_id == legacy.selected[legacy.i]
             reply_text == TruncateWithEllipsis(raw)
         IN /\ Strip(raw) > 0
            /\ CreateTweet("legacy", "reply", reply_text)
            /\ IF CreateTweetFails \/ SaveMentionRaises(mentions, tweet_id)
               THEN /\ legacy' = LegacyAdvance(legacy, FALSE)
                    /\ UNCHANGED ledgerVars
               ELSE /\ legacy' = LegacyAdvance(legacy, TRUE)
                    /\ mentions' = save_mention(mentions, tweet_id, 1, TRUE,
                                                reply_text, "agent_replied",
                                                tools_used)
                    /\ UNCHANGED <<posts, actions>>
    /\ UNCHANGED <<cfgVars, overlap, llmVars, clockVars, sanVars, gateVars, autopost, agent>>

----------------------------------------------------------------------------
(* The sanitizer applied to every input of the bounded input space *)

StepInputs ==
    {NonDictStep}
    \cup {DictStep(t, p) : t \in {"web_search", "generate_image"},
                           p \in {"mapping", "<str>"}}
    \cup {DictStep("web_search", "<missing>")}
    \cup {DictStep(t, "mapping") :
            t \in {"get_twitter_profile", "bogus", "<missing>", "<list>"}}

PlanInputs ==
    {[isList |-> FALSE, items |-> <<>>]}
    \cup {[isList |-> TRUE, items |-> s] : s \in SeqsUpTo(StepInputs, MaxPlanLen)}

NotCalled == [exc |-> "<not called>", plan |-> <<>>]

SanInit ==
    /\ planIn \in PlanInputs
    /\ planOut = NotCalled

SanIdle ==
    /\ planIn = [isList |-> FALSE, items |-> <<>>]
    /\ planOut = NotCalled

SanitizeCall ==
    /\ planOut = NotCalled
    /\ planOut' = _sanitize_plan(planIn)
    /\ UNCHANGED <<planIn, cfgVars, overlap, llmVars, clockVars, gateVars, ledgerVars, platformVars, serviceVars>>

----------------------------------------------------------------------------
(* Triggers and specifications *)

\* lifespan as above, for the specifications of the cycles
Startup ==
    /\ InitializeWith(StartupResponses)
    /\ UNCHANGED <<cfgVars, overlap, llmVars, clockVars, sanVars, ledgerVars, platformVars, serviceVars>>

\* the sanitizer alone, on every input of PlanInputs
SanInitAll ==
    /\ settings \in SettingsValues
    /\ SanInit
    /\ LlmIdle
    /\ GateInit
    /\ LedgerInit
    /\ PlatformInit
    /\ postFailsLeft = 0
    /\ autopost = AutopostIdle
    /\ agent = AgentIdle
    /\ overlap = OverlapIdle
    /\ legacy = LegacyIdle

SanNext == SanitizeCall

SpecSanitize == SanInitAll /\ [][SanNext]_vars

\* the capability gate alone
GateInitAll ==
    /\ settings = DefaultSettings
    /\ SanIdle
    /\ LlmIdle
    /\ GateInit
    /\ LedgerInit
    /\ PlatformInit
    /\ postFailsLeft = 0
    /\ autopost = AutopostIdle
    /\ agent = AgentIdle
    /\ overlap = OverlapIdle
    /\ legacy = LegacyIdle

GateNext ==
    \/ Initialize
    \/ DetectTier
    \/ Resume

SpecGate == GateInitAll /\ [][GateNext]_vars

\* batch-plan cycles on a started process
BatchInit ==
    /\ settings \in SettingsValues
    /\ SanIdle
    /\ LlmIdle
    /\ GateInit
    /\ LedgerWithPriorPosts
    /\ PlatformInit
    /\ autopost = AutopostIdle
    /\ agent = AgentIdle
    /\ overlap = OverlapIdle
    /\ legacy = LegacyIdle

BatchNext ==
    \/ Startup
    \/ AutopostStart
    \/ AutopostPlan
    \/ AutopostTool
    \/ AutopostGenerate
    \/ AutopostPublish

SpecBatch == BatchInit /\ [][BatchNext]_vars

\* one continuous cycle on a started process
AgentNext ==
    \/ Startup
    \/ AgentStart
    \/ AgentLlmFails
    \/ AgentFinishCycle
    \/ AgentUnknownTool
    \/ AgentSharedTool
    \/ AgentGenerateImage
    \/ AgentGetMentions
    \/ AgentCreatePost
    \/ AgentCreatePostBadParams
    \/ AgentCreateReply

SpecAgent == BatchInit /\ [][AgentNext]_vars

\* no service has been started
AllIdle == autopost.pc = "idle" /\ agent.pc = "idle" /\ legacy.pc = "idle"

\* the process runs one cycle of one of its services: a batch cycle, a
\* continuous cycle, or one pass of the mention handler
Next ==
    \/ Startup
    \/ AllIdle /\ AutopostStart
    \/ AutopostPlan
    \/ AutopostTool
    \/ AutopostGenerate
    \/ AutopostPublish
    \/ AllIdle /\ AgentStart
    \/ AgentLlmFails
    \/ AgentFinishCycle
    \/ AgentUnknownTool
    \/ AgentSharedTool
    \/ AgentGenerateImage
    \/ AgentGetMentions
    \/ AgentCreatePost
    \/ AgentCreatePostBadParams
    \/ AgentCreateReply
    \/ AllIdle /\ LegacyStart
    \/ LegacySkip
    \/ LegacyReply

Spec == BatchInit /\ [][Next]_vars

\* the writers of table mentions side by side: a continuous cycle (the
\* scheduled agent job) and a pass of the mention handler (the
\* /process-mentions endpoint), interleaved at their awaits
MentionsNext ==
    \/ Startup
    \/ AgentStart
    \/ AgentFinishCycle
    \/ AgentGetMentions
    \/ AgentCreateReply
    \/ LegacyStart
    \/ LegacySkip
    \/ LegacyReply

SpecMentions == BatchInit /\ [][MentionsNext]_vars

\* run() has returned its result to the trigger; the service instance waits
\* for the next trigger, and the next run() starts from fresh locals
AutopostReturn ==
    /\ autopost.pc = "done"
    /\ autopost.cycle < MaxCycles
    /\ autopost' = [AutopostIdle EXCEPT
                       !.cycle = autopost.cycle + 1,
                       !.failures = autopost.failures +
                                    (IF autopost.result.success THEN 0 ELSE 1)]
    /\ UNCHANGED <<cfgVars, overlap, llmVars, clockVars, sanVars, gateVars, ledgerVars, platformVars, agent, legacy>>

\* the same for UnifiedAgent.run(), whose first statements reset the
\* counters of the instance
AgentReturn ==
    /\ agent.pc = "done"
    /\ agent.cycle < MaxCycles
    /\ agent' = [AgentIdle EXCEPT
                    !.cycle = agent.cycle + 1,
                    !.failures = agent.failures +
                                 (IF agent.result.success THEN 0 ELSE 1)]
    /\ UNCHANGED <<cfgVars, overlap, llmVars, clockVars, sanVars, gateVars, ledgerVars, platformVars, autopost, legacy>>

\* the other cycle service of the process has never been triggered
NeverRun(service) == service.pc = "idle" /\ service.cycle = 1

\* the process runs one of its two cycle services, again and again
CyclesNext ==
    \/ Startup
    \/ NeverRun(agent) /\ AutopostStart
    \/ AutopostPlan
    \/ AutopostTool
    \/ AutopostGenerate
    \/ AutopostPublish
    \/ AutopostReturn
    \/ NeverRun(autopost) /\ AgentStart
    \/ AgentLlmFails
    \/ AgentFinishCycle
    \/ AgentUnknownTool
    \/ AgentGenerateImage
    \/ AgentCreatePost
    \/ AgentReturn

SpecCycles == BatchInit /\ [][CyclesNext]_vars

\* the decoder alone, on every response and shape of the bounded space
DecodeInit ==
    /\ settings = DefaultSettings
    /\ SanIdle
    /\ llmIn \in [raw : RawContents, response_format : Shapes]
    /\ llmOut = NotDecoded
    /\ GateInit
    /\ LedgerInit
    /\ PlatformInit
    /\ postFailsLeft = 0
    /\ autopost = AutopostIdle
    /\ agent = AgentIdle
    /\ overlap = OverlapIdle
    /\ legacy = LegacyIdle

DecodeNext == ChatDecode

SpecDecode == DecodeInit /\ [][DecodeNext]_vars

\* a publish-class tool records its action: db.save_action with the
\* action_type of the tool (tweet_id is passed by create_post only)
LedgerSaveAction ==
    /\ Len(actions) < MaxLedgerRows
    /\ \E action_type \in {"post", "reply"}, include_picture \in BOOLEAN :
         actions' = save_action(action_type, FallbackText(1),
                                IF action_type = "post" THEN Len(actions) + 1 ELSE 0,
                                include_picture,
                                IF action_type = "reply" THEN 1 ELSE 0)
    /\ UNCHANGED <<cfgVars, overlap, llmVars, clockVars, sanVars, gateVars, posts, mentions,
                   platformVars, serviceVars>>

\* midnight on the database server: CURRENT_DATE moves to the next day
LedgerMidnight ==
    /\ db_date < LastDay
    /\ db_date' = db_date + 1
    /\ UNCHANGED <<now, cfgVars, overlap, llmVars, sanVars, gateVars, ledgerVars, platformVars,
                   serviceVars>>

LedgerNext ==
    \/ LedgerSaveAction
    \/ LedgerMidnight

\* continuous cycles that only fetch mentions, one scheduled run after the
\* other
FetchNext ==
    \/ Startup
    \/ AgentStart
    \/ AgentGetMentionsAmong(1..MaxFetched)
    \/ AgentFinishCycle
    \/ AgentReturn

SpecFetch == BatchInit /\ [][FetchNext]_vars

\* two continuous cycles in progress at once on the shared instance
OverlapNext ==
    \/ Startup
    \/ \E r \in Runs :
          \/ OverlapStart(r)
          \/ OverlapAuxTool(r)
          \/ OverlapPostCheck(r)
          \/ OverlapPostPublish(r)
          \/ OverlapReplyCheck(r)
          \/ OverlapReplyPublish(r)
          \/ OverlapFinish(r)

SpecOverlap == BatchInit /\ [][OverlapNext]_vars

\* the capability gate and its scheduled refresh job, as time passes
RefreshNext ==
    \/ Startup
    \/ MaybeRefreshTier
    \/ Tick

SpecRefresh == GateInitAll /\ [][RefreshNext]_vars

\* the actions ledger alone, over several days
SpecLedger == GateInitAll /\ [][LedgerNext]_vars

----------------------------------------------------------------------------
(* Properties of the plan sanitizer (SpecSanitize) *)

\* C1: whatever the input, a plan returned by _sanitize_plan has at most 3
\* steps, every tool in TOOLS, at most one generate_image step, and that
\* step, if present, is the last one
C1_SanitizedPlanShape ==
    (planOut /= NotCalled /\ planOut.exc = "") =>
        LET p == planOut.plan IN
        /\ Len(p) <= 3
        /\ \A i \in 1..Len(p) : p[i].tool \in TOOLS
        /\ Cardinality({i \in 1..Len(p) : p[i].tool = "generate_image"}) <= 1
        /\ \A i \in 1..Len(p) : p[i].tool = "generate_image" => i = Len(p)

\* a plan of four steps that opens with generate_image comes back as three
\* steps with generate_image moved to the end
C1_Witness ==
    /\ planOut /= NotCalled /\ planOut.exc = ""
    /\ Len(planIn.items) = MaxPlanLen
    /\ planIn.items[1].isDict /\ planIn.items[1].tool = "generate_image"
    /\ Len(planOut.plan) = 3
    /\ planOut.plan[3].tool = "generate_image"

\* C2: _sanitize_plan returns without raising on every input, and every
\* step it returns can be run by the batch executor without raising on the
\* step's shape
C2_SanitizerTotal ==
    planOut /= NotCalled =>
        /\ planOut.exc = ""
        /\ \A i \in 1..Len(planOut.plan) : ~ParamsGetRaises(planOut.plan[i])

----------------------------------------------------------------------------
(* Properties of the capability gate (SpecGate) *)

\* C10: an initialized, unpaused gate with a positive cap refuses posting
\* with the cap-reached reason exactly when usage >= cap, and otherwise
\* answers (True, None)
C10_CanPostAtCap ==
    (tier_manager.is_initialized /\ ~tier_manager.is_paused
        /\ tier_manager.project_cap > 0) =>
        can_post(tier_manager) =
            IF tier_manager.project_usage >= tier_manager.project_cap
            THEN [ok |-> FALSE, reason |-> "monthly_cap_reached"]
            ELSE [ok |-> TRUE, reason |-> "<none>"]

\* an unpaused gate at exactly 100% usage that refuses
C10_Witness ==
    /\ tier_manager.is_initialized /\ ~tier_manager.is_paused
    /\ tier_manager.project_cap > 0
    /\ tier_manager.project_usage = tier_manager.project_cap
    /\ ~can_post(tier_manager).ok

\* C11: once a refresh has seen the cap of a known tier reached and paused
\* the gate, can_post() refuses, also when initialize() had failed at startup
C11_PausedGateRefuses ==
    (tier_manager.is_paused /\ tier_manager.tier \in KnownTiers) =>
        ~can_post(tier_manager).ok

\* C12: a detect_tier (alone or inside initialize) that was answered 429
\* did not raise and left tier as it was before the call
C12_ThrottledRefreshKeepsTier ==
    (gateCall.op \in {"detect_tier", "initialize"} /\ gateCall.resp.kind = "429") =>
        /\ ~gateCall.raised
        /\ tier_manager.tier = gateCall.before.tier

\* a gate that knew its tier was refreshed, got 429, and still knows it
C12_Witness ==
    /\ gateCall.op = "detect_tier" /\ gateCall.resp.kind = "429"
    /\ gateCall.before.tier = "basic"
    /\ tier_manager.tier = "basic"

\* the answers C13 is about: a network error, a 200 whose body is not the
\* expected mapping, has no usage payload, or has a field int() rejects
UnexpectedResponse(resp) ==
    \/ resp.kind \in {"network", "bad_schema"}
    \/ resp.kind = "ok" /\ (~resp.payload \/ ~resp.capOk \/ ~resp.usageOk)

\* C13: a refresh that met a network error or an unexpected schema did not
\* raise and left tier, usage, cap, reset day and is_paused as they were
C13_FailedRefreshKeepsState ==
    (gateCall.op = "detect_tier" /\ UnexpectedResponse(gateCall.resp)) =>
        /\ ~gateCall.raised
        /\ tier_manager.tier = gateCall.before.tier
        /\ tier_manager.project_usage = gateCall.before.project_usage
        /\ tier_manager.project_cap = gateCall.before.project_cap
        /\ tier_manager.cap_reset_day = gateCall.before.cap_reset_day
        /\ tier_manager.is_paused = gateCall.before.is_paused

----------------------------------------------------------------------------
(* Properties of the batch-plan cycle (SpecBatch) *)

\* C6: a batch cycle that was not blocked by the gate, in which every model
\* call returned and the platform and the storage did not fail, has made
\* exactly one publish call and recorded exactly one post
C6_OnePublishOnePost ==
    (autopost.pc = "done"
        /\ autopost.result.error /= "posting_blocked"
        /\ autopost.faults \cap {"llm", "db", "twitter"} = {}
        /\ postFailsLeft = 0) =>
        /\ Len(publishLog) = 1
        /\ publishLog[1].ok
        /\ Len(posts) = 1

\* C16: a batch cycle that the gate denied returned the blocked result with
\* the gate's reason, and made no model call, ran no tool, made no platform
\* call and wrote nothing to the ledger
C16_BlockedCycleHasNoEffects ==
    (autopost.pc = "done" /\ autopost.result.error = "posting_blocked") =>
        /\ ~autopost.result.success
        /\ autopost.result.reason = can_post(tier_manager).reason
        /\ autopost.result.reason /= "<none>"
        /\ autopost.llm_calls = 0
        /\ autopost.tools_used = <<>>
        /\ publishLog = <<>>
        /\ posts = <<>>
        /\ actions = PriorActions
        /\ mentions = <<>>

\* a cycle denied because the monthly cap is reached
C16_Witness ==
    /\ autopost.pc = "done"
    /\ autopost.result.error = "posting_blocked"
    /\ autopost.result.reason = "monthly_cap_reached"
    /\ ~can_post(tier_manager).ok

----------------------------------------------------------------------------
(* Properties of the continuous cycle (SpecAgent) *)

\* C15: while can_post() is false, no create_post step of a continuous
\* cycle reaches the platform
C15_GatedCreatePost ==
    (\E i \in 1..Len(publishLog) :
        publishLog[i].path = "agent" /\ publishLog[i].kind = "post") =>
        can_post(tier_manager).ok

\* the tier's daily quota for a kind of action
DailyQuota(kind) ==
    IF kind = "post" THEN get_daily_limits(tier_manager)[1]
    ELSE get_daily_limits(tier_manager)[2]

C3_CapIsReached ==
    (agent.pc = "done" /\ ~agent.finish_chosen /\ ~agent.raised) =>
        /\ agent.llm_calls = max_iterations
        /\ agent.dispatches = max_iterations
        /\ agent.result.success

\* C4: from the same state before the last allowed decision, the result of
\* the cycle that is cut off by the cap differs from the result of the
\* cycle whose last decision is finish_cycle
C4_ResultTellsForcedFromFinished ==
    [][(/\ agent.pc = "loop"
        /\ agent.iteration = max_iterations - 1
        /\ agent'.pc = "done"
        /\ agent'.result.success
        /\ ~agent'.finish_chosen
        /\ ~agent'.marker_seen)
       => agent'.result /=
            EndOfIteration(Dispatched(agent), "finish_cycle", TRUE).result]_vars

\* C5: a continuous cycle that returned before the iteration cap was
\* exhausted ended on a finish_cycle decision
C5_EarlyStopOnlyOnFinish ==
    (agent.pc = "done" /\ agent.result.success
        /\ agent.iteration < max_iterations) => agent.finish_chosen

----------------------------------------------------------------------------
(* Properties of the publish paths (Spec) *)

\* C7: once the service has returned, a publish call that failed has been
\* followed by a publish call that succeeded
C7_FailedPublishRetried ==
    \A i \in 1..Len(publishLog) :
        LET e == publishLog[i]
            returned ==
                \/ e.path = "batch" /\ autopost.pc = "done"
                \/ e.path = "agent" /\ agent.pc = "done"
                \/ e.path = "legacy" /\ legacy.pc = "done"
        IN (~e.ok /\ returned) =>
               \E j \in (i + 1)..Len(publishLog) : publishLog[j].ok

\* C8: every text handed to create_tweet, on every path, has at most 280
\* characters
C8_PublishedTextWithinLimit ==
    \A i \in 1..Len(publishLog) : TextLen(publishLog[i].text) <= TweetLimit

\* the model returned more than 280 characters to the continuous cycle and
\* 277 of them went out followed by "..."
C8_Witness ==
    \E i \in 1..Len(publishLog) :
        /\ publishLog[i].path = "agent"
        /\ publishLog[i].text.src > TweetLimit
        /\ publishLog[i].text.ell
        /\ TextLen(publishLog[i].text) = TweetLimit

\* C9: no publish call is made with an empty text and no post or action
\* with an empty text is recorded; a text of the batch cycle or of
\* create_post that came back empty went out as a fallback message
C9_NoEmptyTextPublished ==
    /\ \A i \in 1..Len(publishLog) :
         publishLog[i].kind = "post" =>
            /\ TextLen(publishLog[i].text) > 0
            /\ publishLog[i].text.src = 0 => publishLog[i].text.fb > 0
    /\ \A i \in 1..Len(posts) : TextLen(posts[i].text) > 0
    /\ \A i \in 1..Len(actions) :
         actions[i].action_type = "post" => TextLen(actions[i].text) > 0


----------------------------------------------------------------------------
(* Properties of the mentions table *)

\* C17: a get_mentions call that observes a mention already stored as
\* pending completes without an error
C17_PendingSeenAgainCompletes ==
    agent.pending_seen_again => ~agent.get_mentions_raised


\* C18: whatever get_mentions, create_reply and the mention handler did,
\* table mentions holds at most one row per mention id
C18_OneRowPerMention ==
    \A i, j \in 1..Len(mentions) :
        mentions[i].tweet_id = mentions[j].tweet_id => i = j

\* the agent and the mention handler both replied to the mention, the
\* handler's INSERT was refused, and the table holds the one row
C18_Witness ==
    /\ legacy.pc = "done" /\ legacy.failed = 1
    /\ agent.replies_this_cycle = 1
    /\ Len(publishLog) = 2 /\ publishLog[1].ok /\ publishLog[2].ok
    /\ publishLog[2].path = "legacy"
    /\ Len(mentions) = 1


\* the mention a create_reply step replied to, and the text it published
RepliedTo == actions'[Len(actions')].reply_to_tweet_id

ReplyText == actions'[Len(actions')].text

\* C19: a successful create_reply for a mention id without a row creates
\* one row directly in a terminal disposition with the reply text; one for
\* a pending mention updates the row in place and keeps its author_text
C19_FinalizeCreatesOrUpdates ==
    [][agent'.replies_this_cycle = agent.replies_this_cycle + 1 =>
         /\ RowsFor(mentions, RepliedTo) = {} =>
               /\ Len(mentions') = Len(mentions) + 1
               /\ SubSeq(mentions', 1, Len(mentions)) = mentions
               /\ mentions'[Len(mentions')].tweet_id = RepliedTo
               /\ mentions'[Len(mentions')].action = "agent_replied"
               /\ mentions'[Len(mentions')].has_reply
               /\ mentions'[Len(mentions')].our_reply = ReplyText
         /\ \A i \in RowsFor(mentions, RepliedTo) :
               mentions[i].action = "pending" =>
                 /\ Len(mentions') = Len(mentions)
                 /\ mentions'[i].tweet_id = RepliedTo
                 /\ mentions'[i].action = "agent_replied"
                 /\ mentions'[i].has_reply
                 /\ mentions'[i].our_reply = ReplyText
                 /\ mentions'[i].author_text = mentions[i].author_text
                 /\ \A j \in 1..Len(mentions) :
                       j /= i => mentions'[j] = mentions[j]]_vars

\* a mention observed by get_mentions with its second text, then replied
\* to by create_reply: the row is finalized and has kept that text
C19_Witness ==
    /\ agent.replies_this_cycle = 1
    /\ legacy.pc = "idle"
    /\ \E i \in 1..Len(mentions) :
          /\ mentions[i].action = "agent_replied"
          /\ mentions[i].has_reply
          /\ mentions[i].author_text = 2

\* a reply to a mention that was never stored: the row was created with an
\* empty author_text
C19_CreatedDirectly ==
    /\ agent.replies_this_cycle = 1
    /\ legacy.pc = "idle"
    /\ \E i \in 1..Len(mentions) :
          /\ mentions[i].action = "agent_replied"
          /\ mentions[i].has_reply
          /\ mentions[i].author_text = 0


----------------------------------------------------------------------------
(* Properties of the actions ledger (SpecLedger) *)

\* the rows of a kind recorded on a day
RecordedOn(kind, day) ==
    {i \in 1..Len(actions) :
        actions[i].action_type = kind /\ actions[i].created_day = day}

\* C20: with k actions of a kind recorded today, none of that kind before
\* today, and any number of the other kind on any day,
\* count_actions_today(kind) is k
C20_CountsTodaysActionsOfKind ==
    \A kind \in {"post", "reply"} :
        (\A d \in StartDay..(db_date - 1) : RecordedOn(kind, d) = {}) =>
            count_actions_today(kind) = Cardinality(RecordedOn(kind, db_date))

\* two posts today, none before, and replies both yesterday and today
C20_Witness ==
    /\ db_date = StartDay + 1
    /\ Cardinality(RecordedOn("post", db_date)) = 2
    /\ RecordedOn("post", StartDay) = {}
    /\ RecordedOn("reply", StartDay) /= {}
    /\ RecordedOn("reply", db_date) /= {}
    /\ count_actions_today("post") = 2


----------------------------------------------------------------------------
(* Properties of error handling *)

\* C22: a batch cycle that made its planner call, ran no tool, and in which
\* no call outside the program failed, did not end as a failure: whatever
\* the planner returned was repaired
C22_MalformedPlanNotAFailure ==
    (/\ autopost.pc = "done"
     /\ autopost.llm_calls = 1
     /\ autopost.tools_used = <<>>
     /\ autopost.faults = {}) =>
        autopost.result.success

\* C21: a batch cycle in which an auxiliary tool failed, and nothing else
\* went wrong, went on with the remaining steps of its plan
C21_ToolFailureDoesNotAbort ==
    (/\ autopost.pc = "done"
     /\ autopost.faults = {"tool"}
     /\ \A k \in 1..Len(autopost.plan) : autopost.plan[k].params = "mapping") =>
        autopost.i > Len(autopost.plan)


----------------------------------------------------------------------------
(* Further properties of the capability gate (SpecGate) *)

\* C24: the result that a forced tier refresh returns across the process
\* boundary carries a success flag, whatever the usage endpoint answered
C24_RefreshResultHasSuccessFlag ==
    gateCall.op = "detect_tier" =>
        "success" \in detect_tier_keys(gateCall.before, gateCall.resp)

\* C30: in every gate state left by a refresh that read a well-formed
\* answer, is_paused implies usage_count / usage_cap >= 1.0
C30_PausedOnlyAtCap ==
    (/\ gateCall.op \in {"initialize", "detect_tier"}
     /\ gateCall.resp.kind = "ok" /\ gateCall.resp.payload
     /\ gateCall.resp.capOk /\ gateCall.resp.usageOk
     /\ gateCall.resp.cap > 0
     /\ tier_manager.is_paused) =>
        AtOrOverCap(tier_manager)


----------------------------------------------------------------------------
(* Further properties of the published texts (Spec) *)

\* C29: on every publish path, a text produced with more than 280
\* characters goes out as a prefix of it followed by the ellipsis marker
C29_LongTextEndsWithEllipsis ==
    \A i \in 1..Len(publishLog) :
        publishLog[i].text.src > TweetLimit =>
            /\ publishLog[i].text.ell
            /\ publishLog[i].text.pre < publishLog[i].text.src


----------------------------------------------------------------------------
(* Properties of the transcript *)

\* C26: in a batch cycle in which no call failed, every executed plan step
\* has left one observation before the next model call: after the plan
\* (system, user, plan) the transcript grows by one observation and one
\* model turn per step
C26_OneObservationPerStep ==
    (autopost.pc = "tools" /\ autopost.faults = {}) =>
        autopost.messages = 3 + 2 * (autopost.i - 1)


----------------------------------------------------------------------------
(* Properties of tool dispatch in the continuous cycle (SpecAgent) *)

\* C27: after a decision that names a tool with no registered executor, an
\* error observation has been appended and, below the iteration cap, the
\* loop goes on to the next decision
C27_UnknownToolIsObserved ==
    agent.unknown_tool =>
        /\ agent.observations = agent.dispatches
        /\ agent.iteration < max_iterations => agent.pc = "loop"

\* C28: the executor of generate_image runs in a continuous cycle only if
\* the tool is in the admissible set of the mode and tier
C28_OnlyAdmissibleToolsRun ==
    agent.image_executor_ran =>
        "generate_image" \in get_tools_for_mode("unified", _get_tier(tier_manager))


----------------------------------------------------------------------------
(* Properties of the cycles' results (SpecCycles) *)

----------------------------------------------------------------------------
(* Properties of the decoder (SpecDecode) *)

\* C25: a response that is not valid JSON but embeds a JSON object decodes
\* to that object, and only a response without an embedded object decodes
\* to the structural default
C25_EmbeddedObjectIsExtracted ==
    (llmOut /= NotDecoded /\ ~JsonLoads(llmIn.raw)) =>
        (llmOut.kind = "object" <=> EmbedsObject(llmIn.raw))

----------------------------------------------------------------------------
(* Properties of the capability gate over time (SpecGate) *)

\* C31: the gate never unpauses by itself: a step that takes is_paused from
\* true to false is a call of resume(), and resume() leaves the gate not
\* paused with pause_reason cleared; refreshes, whatever usage they observe,
\* leave a paused gate paused.
C31_OnlyResumeUnpauses ==
    [][/\ (tier_manager.is_paused /\ ~tier_manager'.is_paused)
            => gateCall'.op = "resume"
       /\ (gateCall'.op = "resume" /\ gateCall' /= gateCall)
            => (~tier_manager'.is_paused
                /\ tier_manager'.pause_reason = "<none>")]_vars

\* a paused gate has gone through a refresh that observed usage under the
\* cap, and is still paused
C31_Witness ==
    /\ gateCall.op = "detect_tier"
    /\ gateCall.before.is_paused
    /\ gateCall.resp.kind = "ok" /\ gateCall.resp.payload
    /\ gateCall.resp.capOk /\ gateCall.resp.usageOk
    /\ gateCall.resp.cap > 0 /\ gateCall.resp.usage < gateCall.resp.cap
    /\ tier_manager.is_paused
    /\ tier_manager.pause_reason = "monthly_cap_reached"

\* C32: maybe_refresh_tier() contacts the usage endpoint only when more than
\* the refresh interval has passed since the endpoint was last contacted,
\* whether that earlier refresh succeeded or only was attempted.
C32_NoRefreshWithinInterval ==
    (/\ gateCall.op = "maybe_refresh_tier"
     /\ gateCall.resp.kind /= "<none>"
     /\ tierChecks.prev /= -1)
        => tierChecks.last - tierChecks.prev > tier_check_interval

\* C33: after any sequence of refreshes the gate's tier is free, basic, pro
\* or enterprise, or has not been detected yet.
C33_TierIsOrdinal ==
    tier_manager.tier \in KnownTiers \cup {"<none>"}

----------------------------------------------------------------------------
(* Properties of the mention rows over time (SpecMentions) *)

\* C34: a mention row that has left pending never goes back: from then on no
\* step of get_mentions, create_reply or the mention handler makes its
\* disposition pending again or takes its reply text away, and the row stays
\* in the table.
C34_DispositionNeverReverts ==
    [][\A i \in 1..Len(mentions) :
          mentions[i].action /= "pending" =>
              /\ i <= Len(mentions')
              /\ mentions'[i].tweet_id = mentions[i].tweet_id
              /\ mentions'[i].action /= "pending"
              /\ mentions[i].has_reply => mentions'[i].has_reply]_vars

\* the mention handler replied to a mention, and create_reply then replied
\* to it again: the second reply worked on a row that had left pending
C34_Witness ==
    \E i, j \in 1..Len(publishLog) :
        /\ i < j
        /\ publishLog[i].path = "legacy" /\ publishLog[i].ok
        /\ publishLog[j].path = "agent" /\ publishLog[j].kind = "reply"
        /\ publishLog[j].ok
        /\ \E a \in 1..Len(actions) : actions[a].action_type = "reply"
        /\ \E k \in 1..Len(mentions) :
              /\ mentions[k].action = "agent_replied" /\ mentions[k].has_reply
              /\ mentions[k].author_text = 1

\* C35: a get_mentions call that is handed a mention stored as pending goes
\* on through its fetch: when it is over, every mention of the fetch has a
\* row, the new ones included.
C35_PendingDoesNotStopTheFetch ==
    ~agent.fetch_left_unstored

----------------------------------------------------------------------------
(* Properties of the action ledger in continuous mode (SpecAgent) *)

\* C36: every action of the ledger carries the id the platform gave to the
\* publish it records, a post or a reply, and that publish succeeded.
C36_ActionsCarryPlatformId ==
    \A i \in 1..Len(actions) :
        /\ actions[i].tweet_id /= 0
        /\ actions[i].tweet_id > 0 =>
              /\ actions[i].tweet_id <= Len(publishLog)
              /\ publishLog[actions[i].tweet_id].ok
              /\ publishLog[actions[i].tweet_id].kind = actions[i].action_type

----------------------------------------------------------------------------
(* Properties of the daily count across the two modes (SpecBatch) *)

\* C40: the posts that batch-plan cycles published and saved today are part
\* of the same-day post count that create_post compares with the daily
\* quota: the count is the posts the ledger held when the day's cycles began
\* plus one for every post a batch-plan cycle saved.
C40_BatchPostsAreCounted ==
    db_date = StartDay =>
        count_actions_today("post") = PriorPosts + Len(posts)

----------------------------------------------------------------------------
(* Properties of overlapping continuous cycles (SpecOverlap) *)

\* C38: nothing holds a post back under overlapping cycles.  The quota
\* check of create_post decides on the recorded actions alone, so a call is
\* admitted whenever the recorded count is under the quota, whatever the
\* other cycle has in flight; and when both cycles were admitted on a count
\* one below the quota and both published, the same-day count is above the
\* quota.
C38_NothingPreventsOverrun ==
    LET quota == get_daily_limits(tier_manager)[1]
    IN /\ \A r \in Runs :
             overlap.run[r].check_seen /= -1 =>
                 (overlap.run[r].check_admitted
                      <=> overlap.run[r].check_seen < quota)
       /\ (\A r \in Runs :
              /\ overlap.run[r].check_admitted
              /\ overlap.run[r].check_seen = quota - 1
              /\ overlap.run[r].own_posts = 1)
            => count_actions_today("post") = quota + 1

\* both cycles passed the quota check on a count one below the quota before
\* either recorded its post, both published, and the day's count is above
\* the quota
C38_Witness ==
    LET quota == get_daily_limits(tier_manager)[1]
    IN /\ \A r \in Runs :
             /\ overlap.run[r].check_admitted
             /\ overlap.run[r].check_seen = quota - 1
             /\ overlap.run[r].own_posts = 1
       /\ count_actions_today("post") > quota

\* C39: when two continuous cycles overlap on the shared instance, the
\* posts and replies counts a cycle returns are the posts and replies that
\* cycle published, and the tools stored with a reply were all dispatched
\* by the cycle that published the reply.
C39_OverlappingCyclesKeepTheirOwn ==
    \A r \in Runs :
        /\ (overlap.run[r].pc = "done" /\ overlap.run[r].result.success) =>
              /\ overlap.run[r].result.posts = overlap.run[r].own_posts
              /\ overlap.run[r].result.replies = overlap.run[r].own_replies
        /\ ~overlap.run[r].foreign_tools

====
